---- MODULE Spec2Model ----
(***************************************************************************)
(* ollama-pod: lifecycle of Ollama pods on RunPod (up / down / status),    *)
(* the readiness poll, and the local tracked records under PODS_DIR.       *)
(*                                                                         *)
(* One invocation runs at a time (pc = "idle" between invocations); the    *)
(* provider changes under the program through the Env actions.  Python's   *)
(* None is the empty sequence, a present value x is <<x>>; a missing       *)
(* string field is "".                                                     *)
(***************************************************************************)
EXTENDS Integers, Sequences, FiniteSets, TLC

VARIABLES
    pods_dir,   \* PODS_DIR: file name (without .json) -> tracked record
    provider,   \* the provider's instances: pod id -> pod
    issued,     \* how many pod ids the provider has handed out
    pc,         \* position of the running invocation, "idle" when none runs
    cmd,        \* the running invocation: "up", "down", "status", "wait", "none"
    arg_name,   \* its name argument ("" for status without --name)
    pod_id,     \* local pod_id of up / down / wait_for_ready
    pod,        \* wait_for_ready's local pod: the last status response
    pod_info,   \* what wait_for_ready returned
    endpoint,   \* up's local endpoint
    deadline,   \* wait_for_ready's deadline
    now,        \* time.monotonic(), counted from the call of wait_for_ready
    latency,    \* round-trip time of a status call during this wait
    polls,      \* status calls made by this wait_for_ready
    ready_poll, \* the poll of this wait on which the provider first reports a runtime (0: never)
    todo,       \* status: the states still to print
    log,        \* the steps this invocation has taken, in order: <<step, argument, note>>
    failure,    \* the first thing that went wrong in this invocation ("" while nothing has)
    listed,     \* the running Ollama pods the provider had when _sync_from_runpod listed them
    created,    \* the pod id create_ollama_pod returned to this invocation
    dir0,       \* pods_dir when this invocation started
    result,     \* how the invocation ended
    procs,      \* interleaved invocations: each process's position and locals
    last_write, \* interleaved invocations: the last write to each record file
    input,      \* a function under study: the arguments of the call
    output,     \* a function under study: what the call returned or raised
    disk        \* a function under study: the text of each file of PODS_DIR

vars == <<pods_dir, provider, issued, pc, cmd, arg_name, pod_id, pod, pod_info,
          endpoint, deadline, now, latency, polls, ready_poll, todo, log,
          failure, listed, created, dir0, result, procs, last_write, input, output, disk>>

\* the variables the lifecycle of one invocation at a time does not use
OtherSpecs == <<procs, last_write, input, output, disk>>

(***************************************************************************)
(* Bounds and program constants                                            *)
(***************************************************************************)
MaxPods == 2            \* pod ids the provider hands out
MaxReadyOn == 3         \* latest status call on which a pod reports its runtime
MaxLatency == 2         \* seconds a status call may take
MaxProcs == 2           \* invocations that run at the same time
MaxPrice == 2           \* highest hourly price of a SKU
MaxGpus == 2            \* SKUs the provider lists
MaxPorts == 2           \* entries of a runtime's port-mapping list
MaxLayers == 2          \* layers of a manifest

OLLAMA_PORT == 11434
POLL_INTERVAL_S == 5
DefaultTimeout == 300

None == <<>>
Some(x) == <<x>>

NameSeq == <<"a", "b">>                   \* --name values the operator uses, sorted
Names == {NameSeq[i] : i \in DOMAIN NameSeq}
OllamaName(name) == "ollama-" \o name     \* f"ollama-{name}"
PodId(i) == "p" \o ToString(i)
Model == "qwen2.5:7b"
Timeouts == {1, POLL_INTERVAL_S + 2}      \* timeouts of direct wait_for_ready calls
Latencies == {0, MaxLatency}

(***************************************************************************)
(* The provider (runpod): pods and the three calls the lifecycle makes     *)
(***************************************************************************)
\* str(n) as a sequence of characters
RECURSIVE DigitChars(_)
DigitChars(n) == IF n < 10 THEN <<ToString(n)>>
                 ELSE DigitChars(n \div 10) \o <<ToString(n % 10)>>

\* sub in s, for strings held as sequences of characters
Contains(sub, s) ==
    \E i \in 0..(Len(s) - Len(sub)) :
        \A j \in 1..Len(sub) : s[i + j] = sub[j]

OllamaPorts == DigitChars(OLLAMA_PORT) \o <<"/", "t", "c", "p">>   \* "11434/tcp"
OtherPorts == <<"8", "8", "8", "8", "/", "h", "t", "t", "p">>      \* "8888/http"

\* runtime descriptors a pod reports once it is scheduled
TcpRuntime == [ports |-> <<[privatePort |-> OLLAMA_PORT, publicPort |-> 30042,
                            ip |-> "194.68.1.1", type |-> "tcp"]>>]
BareRuntime == [ports |-> <<>>]
RuntimeShapes == {TcpRuntime, BareRuntime}

\* a readiness test that takes any status response for a ready pod
Truthy_Always(runtime) == TRUE

\* pod.get("runtime") as a condition: None and the empty dict are falsy
Truthy(runtime) == runtime # None

\* the pod runpod.create_pod makes for create_ollama_pod's kwargs
NewPod(id, name) ==
    [id |-> id, name |-> OllamaName(name), desiredStatus |-> "RUNNING",
     ports |-> OllamaPorts, runtime |-> None]

\* pods made outside this program (another machine, the web console)
ForeignPods(id) ==
    { [id |-> id, name |-> n, desiredStatus |-> st, ports |-> po, runtime |-> Some(TcpRuntime)] :
        <<n, st, po>> \in { <<"", "RUNNING", OllamaPorts>>,
                            <<OllamaName("a"), "RUNNING", OllamaPorts>>,
                            <<"", "EXITED", OllamaPorts>>,
                            <<"", "RUNNING", OtherPorts>> } }

Exists(id) == id \in DOMAIN provider

Remove(f, k) == [x \in DOMAIN f \ {k} |-> f[x]]

\* runpod.get_pod(id) during a wait: the record, or an exception (the provider
\* does not know the id, or the call itself failed).  scheduled: whether the
\* provider has the pod's runtime up by the time of this call.
GetPodOutcomes(id, scheduled) ==
    {[kind |-> "error", provider |-> provider]}
    \cup (IF ~Exists(id)
          THEN {[kind |-> "notfound", provider |-> provider]}
          ELSE IF scheduled /\ provider[id].runtime = None
          THEN {[kind |-> "ok", provider |-> [provider EXCEPT ![id].runtime = Some(rt)]] :
                    rt \in RuntimeShapes}
          ELSE {[kind |-> "ok", provider |-> provider]})

\* runpod.terminate_pod(id): removes the pod, or raises (unknown id, failed call)
TerminateOutcomes(id) ==
    {[raised |-> TRUE, provider |-> provider]}
    \cup (IF Exists(id) THEN {[raised |-> FALSE, provider |-> Remove(provider, id)]} ELSE {})

(***************************************************************************)
(* pod.py                                                                  *)
(***************************************************************************)
\* a scan that keeps the last matching entry of the list
RECURSIVE FirstMapping_Last(_)
FirstMapping_Last(ports) ==
    IF ports = <<>> THEN None
    ELSE LET rest == FirstMapping_Last(Tail(ports))
         IN  IF rest # None THEN rest
             ELSE IF Head(ports).privatePort = OLLAMA_PORT /\ Head(ports).ip # ""
                  THEN Some(Head(ports))
                  ELSE None

\* lines 103-104: the first entry of the list the loop returns from
RECURSIVE FirstMapping(_)
FirstMapping(ports) ==
    IF ports = <<>> THEN None
    ELSE IF Head(ports).privatePort = OLLAMA_PORT /\ Head(ports).ip # ""
         THEN Some(Head(ports))
         ELSE FirstMapping(Tail(ports))

get_endpoint(p) ==
    LET ports == IF p.runtime = None THEN <<>> ELSE p.runtime[1].ports
        hit == FirstMapping(ports)
    IN  IF hit # None
        THEN LET port_info == hit[1]
                 protocol == IF port_info.type = "http" THEN "https" ELSE "http"
             IN  protocol \o "://" \o port_info.ip \o ":" \o ToString(port_info.publicPort)
        ELSE "https://" \o p.id \o "-" \o ToString(OLLAMA_PORT) \o ".proxy.runpod.net"

\* find_ollama_pods' filter over runpod.get_pods()
ExposesOllama(p) == Contains(DigitChars(OLLAMA_PORT), p.ports)

(***************************************************************************)
(* cli.py: the tracked records                                             *)
(***************************************************************************)
\* a file write that refuses to replace a file that is there
_save_state_Exclusive(dir, name, state) ==
    IF name \in DOMAIN dir THEN dir
    ELSE (name :> [k \in DOMAIN state \cup {"name"} |-> IF k = "name" THEN name ELSE state[k]]) @@ dir

\* _save_state: state["name"] = name, then the whole document is written
_save_state(dir, name, state) ==
    LET doc == [k \in DOMAIN state \cup {"name"} |-> IF k = "name" THEN name ELSE state[k]]
    IN  IF name \in DOMAIN dir THEN [dir EXCEPT ![name] = doc]
        ELSE (name :> doc) @@ dir

_load_state(dir, name) == IF name \in DOMAIN dir THEN Some(dir[name]) ELSE None

_clear_state(dir, name) == IF name \in DOMAIN dir THEN Remove(dir, name) ELSE dir

\* every file name PODS_DIR can hold, in the order sorted() gives the paths
FileOrder ==
    NameSeq \o [i \in DOMAIN NameSeq |-> OllamaName(NameSeq[i])] \o [i \in 1..MaxPods |-> PodId(i)]

RECURSIVE ReadAll(_, _)
ReadAll(dir, files) ==
    IF files = <<>> THEN <<>>
    ELSE (IF Head(files) \in DOMAIN dir THEN <<dir[Head(files)]>> ELSE <<>>)
         \o ReadAll(dir, Tail(files))

\* [json.loads(f.read_text()) for f in sorted(PODS_DIR.glob("*.json"))]
_load_all_states(dir) == ReadAll(dir, FileOrder)

\* _sync_from_runpod, lines 62-88, over the list find_ollama_pods returned:
\* the states it builds, each with the name _save_state gave it
RECURSIVE SyncStates(_)
SyncStates(pods) ==
    IF pods = <<>> THEN <<>>
    ELSE LET p == Head(pods)
             pod_name == IF p.name # "" THEN p.name ELSE p.id
         IN  (IF p.desiredStatus = "RUNNING"
              THEN <<[pod_id |-> p.id, model |-> "unknown", endpoint |-> get_endpoint(p),
                      name |-> pod_name]>>
              ELSE <<>>)
             \o SyncStates(Tail(pods))

\* the files after _save_state(pod_name, state) for each of them in turn
RECURSIVE SaveAll(_, _)
SaveAll(dir, states) ==
    IF states = <<>> THEN dir
    ELSE SaveAll(_save_state(dir, Head(states).name, Head(states)), Tail(states))

\* find_ollama_pods over a listing runpod.get_pods() returned
RECURSIVE find_ollama_pods(_)
find_ollama_pods(listing) ==
    IF listing = <<>> THEN <<>>
    ELSE (IF ExposesOllama(Head(listing)) THEN <<Head(listing)>> ELSE <<>>)
         \o find_ollama_pods(Tail(listing))

(***************************************************************************)
(* Invocations                                                             *)
(***************************************************************************)
Init ==
    /\ pods_dir = <<>>
    /\ provider = <<>>
    /\ issued = 0
    /\ pc = "idle"
    /\ cmd = "none"
    /\ arg_name = ""
    /\ pod_id = ""
    /\ pod = None
    /\ pod_info = None
    /\ endpoint = ""
    /\ deadline = 0
    /\ now = 0
    /\ latency = 0
    /\ polls = 0
    /\ ready_poll = 0
    /\ todo = <<>>
    /\ log = <<>>
    /\ failure = ""
    /\ listed = {}
    /\ created = ""
    /\ dir0 = <<>>
    /\ result = "none"
    /\ procs = <<>> /\ last_write = <<>> /\ input = <<>> /\ output = <<>> /\ disk = <<>>

\* an invocation starts: its command line
Begin(c, name) ==
    /\ pc = "idle"
    /\ cmd' = c
    /\ arg_name' = name
    /\ dir0' = pods_dir

\* the invocation ends with outcome r: "ok" (returned), "exit0" / "exit1"
\* (typer.Exit), "SystemExit", "Exception" (a traceback), "crash" (killed)
Finish(r) ==
    /\ pc' = "done"
    /\ result' = r

Locals == <<pod_id, pod, pod_info, endpoint, deadline, now, latency, polls, ready_poll, todo>>
History == <<log, failure, listed, created>>

\* the process is gone: nothing of the invocation is left but the files
Exit ==
    /\ pc = "done"
    /\ pc' = "idle"
    /\ cmd' = "none" /\ arg_name' = "" /\ pod_id' = "" /\ pod' = None
    /\ pod_info' = None /\ endpoint' = "" /\ deadline' = 0 /\ now' = 0
    /\ latency' = 0 /\ polls' = 0 /\ ready_poll' = 0 /\ todo' = <<>>
    /\ log' = <<>> /\ failure' = "" /\ listed' = {} /\ created' = ""
    /\ dir0' = <<>> /\ result' = "none"
    /\ UNCHANGED <<pods_dir, provider, issued>>
    /\ UNCHANGED OtherSpecs

\* the process is killed between two steps: its locals die with it
Crash ==
    /\ pc \notin {"idle", "done"}
    /\ Finish("crash")
    /\ pod_id' = "" /\ pod' = None /\ pod_info' = None /\ endpoint' = ""
    /\ deadline' = 0 /\ now' = 0 /\ latency' = 0 /\ polls' = 0 /\ ready_poll' = 0
    /\ todo' = <<>>
    /\ failure' = IF failure = "" THEN "crash" ELSE failure
    /\ UNCHANGED <<pods_dir, provider, issued, cmd, arg_name, dir0, log, listed, created>>
    /\ UNCHANGED OtherSpecs

(***************************************************************************)
(* up (cli.py 93-211)                                                      *)
(***************************************************************************)
\* an up without the existing-record check of lines 106-113
UpBegin_NoCheck(name, dry_run, lookups_ok) ==
    /\ Begin("up", name)
    /\ IF ~lookups_ok THEN Finish("SystemExit") /\ failure' = "lookup"
       ELSE IF dry_run THEN Finish("exit0") /\ UNCHANGED failure
       ELSE pc' = "up_create" /\ UNCHANGED <<result, failure>>
    /\ UNCHANGED <<pods_dir, provider, issued>>
    /\ UNCHANGED <<Locals, log, listed, created>>
    /\ UNCHANGED OtherSpecs

\* an up that does not look at --dry-run
UpBegin_IgnoresDryRun(name, dry_run, lookups_ok) ==
    /\ Begin("up", name)
    /\ IF _load_state(pods_dir, name) # None
       THEN Finish("exit1") /\ failure' = "active"
       ELSE IF ~lookups_ok THEN Finish("SystemExit") /\ failure' = "lookup"
       ELSE pc' = "up_create" /\ UNCHANGED <<result, failure>>
    /\ UNCHANGED <<pods_dir, provider, issued>>
    /\ UNCHANGED <<Locals, log, listed, created>>
    /\ UNCHANGED OtherSpecs

\* lines 105-159: the existing-record check, the lookups (model size, volume
\* datacenter, cheapest GPU: any of them may end the invocation), the dry run
UpBegin(name, dry_run, lookups_ok) ==
    /\ Begin("up", name)
    /\ IF _load_state(pods_dir, name) # None
       THEN Finish("exit1") /\ failure' = "active"
       ELSE IF ~lookups_ok THEN Finish("SystemExit") /\ failure' = "lookup"
       ELSE IF dry_run THEN Finish("exit0") /\ UNCHANGED failure
       ELSE pc' = "up_create" /\ UNCHANGED <<result, failure>>
    /\ UNCHANGED <<pods_dir, provider, issued>>
    /\ UNCHANGED <<Locals, log, listed, created>>
    /\ UNCHANGED OtherSpecs

\* an up that asks the provider again when it rejects the create call
UpCreate_Retries(accepted) ==
    /\ pc = "up_create"
    /\ ~accepted
    /\ log' = Append(log, <<"create", "", "rejected">>)
    /\ UNCHANGED <<pods_dir, provider, issued, pc, cmd, arg_name, dir0, result>>
    /\ UNCHANGED <<Locals, failure, listed, created>>
    /\ UNCHANGED OtherSpecs

\* lines 161-170: create_ollama_pod; the provider accepts or rejects (QueryError
\* becomes SystemExit)
UpCreate(accepted) ==
    /\ pc = "up_create"
    /\ IF accepted
       THEN /\ issued < MaxPods
            /\ LET id == PodId(issued + 1)
               IN  /\ provider' = (id :> NewPod(id, arg_name)) @@ provider
                   /\ pod_id' = id
                   /\ created' = id
                   /\ log' = Append(log, <<"create", id, "">>)
            /\ issued' = issued + 1
            /\ pc' = "up_wait"
            /\ UNCHANGED <<result, failure>>
       ELSE /\ Finish("SystemExit")
            /\ failure' = "create"
            /\ log' = Append(log, <<"create", "", "rejected">>)
            /\ UNCHANGED <<provider, issued, pod_id, created>>
    /\ UNCHANGED <<pods_dir, cmd, arg_name, dir0, listed>>
    /\ UNCHANGED <<pod, pod_info, endpoint, deadline, now, latency, polls, ready_poll, todo>>
    /\ UNCHANGED OtherSpecs

(***************************************************************************)
(* wait_for_ready (pod.py 82-93), called by up with the default timeout    *)
(***************************************************************************)
\* the poll of a wait on which the provider first reports the runtime of a
\* pod it knows: 1 when the runtime is already up, else any of the next
\* MaxReadyOn polls, or never (0)
ReadyPolls(id) ==
    IF Exists(id) /\ provider[id].runtime # None THEN {1} ELSE 0..MaxReadyOn

\* line 86: deadline = time.monotonic() + timeout
WaitEnter(id, timeout) ==
    /\ deadline' = now + timeout
    /\ polls' = 0
    /\ latency' \in Latencies
    /\ ready_poll' \in ReadyPolls(id)
    /\ pc' = "wait_loop"

UpWait ==
    /\ pc = "up_wait"
    /\ WaitEnter(pod_id, DefaultTimeout)
    /\ log' = Append(log, <<"wait", pod_id, "">>)
    /\ UNCHANGED <<pods_dir, provider, issued, cmd, arg_name, dir0, result>>
    /\ UNCHANGED <<pod_id, pod, pod_info, endpoint, now, todo, failure, listed, created>>
    /\ UNCHANGED OtherSpecs

\* a direct call wait_for_ready(id, timeout), as the tests make it
WaitBegin(id, timeout) ==
    /\ Begin("wait", "")
    /\ pod_id' = id
    /\ WaitEnter(id, timeout)
    /\ log' = Append(log, <<"wait", id, "">>)
    /\ UNCHANGED <<pods_dir, provider, issued, result>>
    /\ UNCHANGED <<pod, pod_info, endpoint, now, todo, failure, listed, created>>
    /\ UNCHANGED OtherSpecs

\* a loop that still polls at the deadline itself
BeforeDeadline_Inclusive == now <= deadline

\* line 87: while time.monotonic() < deadline
BeforeDeadline == now < deadline

\* line 87 false, line 93: the deadline has passed
WaitTimeout ==
    /\ pc = "wait_loop"
    /\ ~BeforeDeadline
    /\ failure' = "timeout"
    /\ IF cmd = "up" THEN pc' = "up_wait_failed" /\ UNCHANGED result
       ELSE Finish("SystemExit")
    /\ UNCHANGED <<pods_dir, provider, issued, cmd, arg_name, dir0>>
    /\ UNCHANGED <<Locals, log, listed, created>>
    /\ UNCHANGED OtherSpecs

\* lines 87-91: one turn of the loop
WaitPoll ==
    /\ pc = "wait_loop"
    /\ BeforeDeadline
    /\ \E out \in GetPodOutcomes(pod_id, ready_poll # 0 /\ polls + 1 >= ready_poll) :
        /\ provider' = out.provider
        /\ polls' = polls + 1
        /\ IF out.kind # "ok"
           THEN /\ Finish("Exception")
                /\ failure' = "status_error"
                /\ now' = now + latency
                /\ UNCHANGED <<pod, pod_info>>
           ELSE /\ pod' = Some(provider'[pod_id])
                /\ UNCHANGED failure
                /\ IF Truthy(provider'[pod_id].runtime)
                   THEN /\ pod_info' = pod'
                        /\ now' = now + latency
                        /\ IF cmd = "up" THEN pc' = "up_endpoint" /\ UNCHANGED result
                           ELSE Finish("ok")
                   ELSE /\ now' = now + latency + POLL_INTERVAL_S
                        /\ pc' = "wait_loop"
                        /\ UNCHANGED <<pod_info, result>>
    /\ UNCHANGED <<pods_dir, issued, cmd, arg_name, dir0>>
    /\ UNCHANGED <<pod_id, endpoint, deadline, latency, ready_poll, todo, log, listed, created>>
    /\ UNCHANGED OtherSpecs

\* an up that re-raises the timeout and leaves the pod running
UpWaitFailed_NoTerminate ==
    /\ pc = "up_wait_failed"
    /\ Finish("SystemExit")
    /\ UNCHANGED <<pods_dir, provider, issued, cmd, arg_name, dir0>>
    /\ UNCHANGED <<Locals, History>>
    /\ UNCHANGED OtherSpecs

\* lines 176-179: except SystemExit: terminate_pod(pod_id); raise
UpWaitFailed ==
    /\ pc = "up_wait_failed"
    /\ \E out \in TerminateOutcomes(pod_id) :
        /\ provider' = out.provider
        /\ Finish(IF out.raised THEN "Exception" ELSE "SystemExit")
    /\ log' = Append(log, <<"terminate", pod_id, IF Exists(pod_id) THEN "found" ELSE "gone">>)
    /\ UNCHANGED <<pods_dir, issued, cmd, arg_name, dir0, failure, listed, created>>
    /\ UNCHANGED Locals
    /\ UNCHANGED OtherSpecs

\* line 181
UpEndpoint ==
    /\ pc = "up_endpoint"
    /\ endpoint' = get_endpoint(pod_info[1])
    /\ log' = Append(log, <<"endpoint", pod_id, "">>)
    /\ pc' = "up_pull"
    /\ UNCHANGED <<pods_dir, provider, issued, cmd, arg_name, dir0, result, failure, listed, created>>
    /\ UNCHANGED <<pod_id, pod, pod_info, deadline, now, latency, polls, ready_poll, todo>>
    /\ UNCHANGED OtherSpecs

\* an up that writes the record as soon as the pull has answered
UpPull_SavesEarly(pulled) ==
    /\ pc = "up_pull"
    /\ pulled
    /\ pc' = "up_save"
    /\ pods_dir' = _save_state(pods_dir, arg_name,
                      [pod_id |-> pod_id, model |-> Model, endpoint |-> endpoint])
    /\ log' = Append(log, <<"pull", pod_id, "">>)
    /\ UNCHANGED <<provider, issued, cmd, arg_name, dir0, result, failure, listed, created>>
    /\ UNCHANGED Locals
    /\ UNCHANGED OtherSpecs

\* lines 184-190: pull_model; except Exception: terminate_pod(pod_id); Exit(1)
UpPull(pulled) ==
    /\ pc = "up_pull"
    /\ IF pulled
       THEN /\ pc' = "up_save"
            /\ log' = Append(log, <<"pull", pod_id, "">>)
            /\ UNCHANGED <<provider, result, failure>>
       ELSE \E out \in TerminateOutcomes(pod_id) :
            /\ provider' = out.provider
            /\ failure' = "pull"
            /\ log' = log \o << <<"pull", pod_id, "failed">>,
                                <<"terminate", pod_id, IF Exists(pod_id) THEN "found" ELSE "gone">> >>
            /\ Finish(IF out.raised THEN "Exception" ELSE "exit1")
    /\ UNCHANGED <<pods_dir, issued, cmd, arg_name, dir0, listed, created>>
    /\ UNCHANGED Locals
    /\ UNCHANGED OtherSpecs

\* lines 192-202
UpSave ==
    /\ pc = "up_save"
    /\ pods_dir' = _save_state(pods_dir, arg_name,
                      [pod_id |-> pod_id, model |-> Model, endpoint |-> endpoint])
    /\ log' = Append(log, <<"save", pod_id, "">>)
    /\ Finish("ok")
    /\ UNCHANGED <<provider, issued, cmd, arg_name, dir0, failure, listed, created>>
    /\ UNCHANGED Locals
    /\ UNCHANGED OtherSpecs

(***************************************************************************)
(* down (cli.py 214-236)                                                   *)
(***************************************************************************)
\* lines 219-229
DownBegin(name) ==
    /\ Begin("down", name)
    /\ LET state == _load_state(pods_dir, name)
       IN  IF state = None
           THEN Finish("exit1") /\ failure' = "untracked" /\ UNCHANGED pod_id
           ELSE /\ pod_id' = state[1].pod_id
                /\ pc' = "down_terminate"
                /\ UNCHANGED <<result, failure>>
    /\ UNCHANGED <<pods_dir, provider, issued>>
    /\ UNCHANGED <<pod, pod_info, endpoint, deadline, now, latency, polls, ready_poll, todo>>
    /\ UNCHANGED <<log, listed, created>>
    /\ UNCHANGED OtherSpecs

\* lines 230-231
DownTerminate ==
    /\ pc = "down_terminate"
    /\ \E out \in TerminateOutcomes(pod_id) :
        /\ provider' = out.provider
        /\ IF out.raised THEN Finish("Exception") /\ failure' = "terminate"
           ELSE pc' = "down_clear" /\ UNCHANGED <<result, failure>>
    /\ log' = Append(log, <<"terminate", pod_id, IF Exists(pod_id) THEN "found" ELSE "gone">>)
    /\ UNCHANGED <<pods_dir, issued, cmd, arg_name, dir0, listed, created>>
    /\ UNCHANGED Locals
    /\ UNCHANGED OtherSpecs

\* lines 233-236
DownClear ==
    /\ pc = "down_clear"
    /\ pods_dir' = _clear_state(pods_dir, arg_name)
    /\ log' = Append(log, <<"clear", arg_name, "">>)
    /\ Finish("ok")
    /\ UNCHANGED <<provider, issued, cmd, arg_name, dir0, failure, listed, created>>
    /\ UNCHANGED Locals
    /\ UNCHANGED OtherSpecs

(***************************************************************************)
(* status (cli.py 239-303); name "" is status without --name               *)
(***************************************************************************)
\* lines 250-261
StatusBegin(name) ==
    /\ Begin("status", name)
    /\ IF name # ""
       THEN LET state == _load_state(pods_dir, name)
            IN  IF state = None
                THEN Finish("exit1") /\ failure' = "untracked" /\ UNCHANGED todo
                ELSE todo' = state /\ pc' = "status_print" /\ UNCHANGED <<result, failure>>
       ELSE LET states == _load_all_states(pods_dir)
            IN  /\ todo' = states
                /\ pc' = IF states = <<>> THEN "status_sync" ELSE "status_print"
                /\ UNCHANGED <<result, failure>>
    /\ UNCHANGED <<pods_dir, provider, issued>>
    /\ UNCHANGED <<pod_id, pod, pod_info, endpoint, deadline, now, latency, polls, ready_poll>>
    /\ UNCHANGED <<log, listed, created>>
    /\ UNCHANGED OtherSpecs

\* the orders in which runpod.get_pods() may list the pods
Listings ==
    LET ids == DOMAIN provider
        n == Cardinality(ids)
    IN  { [i \in 1..n |-> provider[f[i]]] :
            f \in { g \in [1..n -> ids] : \A i, j \in 1..n : i # j => g[i] # g[j] } }

\* the provider's pods that expose the Ollama port and are RUNNING
RunningOllama ==
    {provider[id] : id \in {i \in DOMAIN provider :
        /\ provider[i].desiredStatus = "RUNNING"
        /\ \E k \in 1..(Len(provider[i].ports) - 4) :
              SubSeq(provider[i].ports, k, k + 4) = <<"1", "1", "4", "3", "4">>}}

\* lines 262-270: _sync_from_runpod; the listing call may fail
StatusSync(answered) ==
    /\ pc = "status_sync"
    /\ IF ~answered
       THEN /\ Finish("Exception")
            /\ failure' = "list"
            /\ log' = Append(log, <<"list", "", "failed">>)
            /\ UNCHANGED <<pods_dir, todo, listed>>
       ELSE \E listing \in Listings :
            LET synced == SyncStates(find_ollama_pods(listing))
            IN  /\ pods_dir' = SaveAll(pods_dir, synced)
                /\ log' = Append(log, <<"list", "", "">>)
                /\ listed' = RunningOllama
                /\ todo' = synced
                /\ UNCHANGED failure
                /\ IF synced = <<>> THEN Finish("exit0")
                   ELSE pc' = "status_print" /\ UNCHANGED result
    /\ UNCHANGED <<provider, issued, cmd, arg_name, dir0, created>>
    /\ UNCHANGED <<pod_id, pod, pod_info, endpoint, deadline, now, latency, polls, ready_poll>>
    /\ UNCHANGED OtherSpecs

\* a _print_pod_table that reports a failed lookup and keeps the record
_print_pod_table_KeepsRecord(dir, state, kind) == dir

\* _print_pod_table (lines 277-303): the files after it; any exception of
\* get_pod clears the record the state names, a found pod is only printed
_print_pod_table(dir, state, kind) ==
    IF kind # "ok" THEN _clear_state(dir, state.name) ELSE dir

\* status takes the next state to _print_pod_table
StatusPrint ==
    /\ pc = "status_print"
    /\ todo # <<>>
    /\ LET state == Head(todo)
       IN  \E out \in GetPodOutcomes(state.pod_id, FALSE) :
            /\ pods_dir' = _print_pod_table(pods_dir, state, out.kind)
            /\ log' = Append(log, <<IF out.kind # "ok" THEN "cleanup" ELSE "print", state.name,
                                     IF Exists(state.pod_id) THEN "found" ELSE "gone">>)
    /\ todo' = Tail(todo)
    /\ UNCHANGED <<provider, issued, pc, cmd, arg_name, dir0, failure, listed, created, result>>
    /\ UNCHANGED <<pod_id, pod, pod_info, endpoint, deadline, now, latency, polls, ready_poll>>
    /\ UNCHANGED OtherSpecs

\* lines 257, 272-274: nothing left to print
StatusEnd ==
    /\ pc = "status_print"
    /\ todo = <<>>
    /\ Finish("ok")
    /\ UNCHANGED <<pods_dir, provider, issued, cmd, arg_name, dir0>>
    /\ UNCHANGED <<Locals, History>>
    /\ UNCHANGED OtherSpecs

(***************************************************************************)
(* The provider's side                                                     *)
(***************************************************************************)
\* a pod goes away without this program (console, another machine, reaped)
EnvVanish(id) ==
    /\ pc # "done"
    /\ Exists(id)
    /\ provider' = Remove(provider, id)
    /\ UNCHANGED <<pods_dir, issued, pc, cmd, arg_name, dir0, result>>
    /\ UNCHANGED <<Locals, History>>
    /\ UNCHANGED OtherSpecs

\* a pod this program did not create shows up in the account
EnvAppear ==
    /\ pc = "idle"
    /\ issued < MaxPods
    /\ \E p \in ForeignPods(PodId(issued + 1)) : provider' = (p.id :> p) @@ provider
    /\ issued' = issued + 1
    /\ UNCHANGED <<pods_dir, pc, cmd, arg_name, dir0, result>>
    /\ UNCHANGED <<Locals, History>>
    /\ UNCHANGED OtherSpecs

Next ==
    \/ \E name \in Names, dry_run \in BOOLEAN, lookups_ok \in BOOLEAN :
            UpBegin(name, dry_run, lookups_ok)
    \/ \E accepted \in BOOLEAN : UpCreate(accepted)
    \/ UpWait
    \/ \E i \in 1..issued, timeout \in Timeouts : WaitBegin(PodId(i), timeout)
    \/ WaitTimeout
    \/ WaitPoll
    \/ UpWaitFailed
    \/ UpEndpoint
    \/ \E pulled \in BOOLEAN : UpPull(pulled)
    \/ UpSave
    \/ \E name \in Names : DownBegin(name)
    \/ DownTerminate
    \/ DownClear
    \/ \E name \in Names \cup {""} : StatusBegin(name)
    \/ \E answered \in BOOLEAN : StatusSync(answered)
    \/ StatusPrint
    \/ StatusEnd
    \/ \E id \in DOMAIN provider : EnvVanish(id)
    \/ EnvAppear
    \/ Crash
    \/ Exit

Spec == Init /\ [][Next]_vars

(***************************************************************************)
(* Interleaved invocations: up and down (cli.py 93-236) run by two         *)
(* processes over the same PODS_DIR and the same provider account          *)
(***************************************************************************)
Procs == 1..MaxProcs

IdleProc == [pc |-> "idle", cmd |-> "none", name |-> "", pod_id |-> "", endpoint |-> "",
             result |-> "none"]

\* the variables of the one-at-a-time lifecycle, and their values while it rests
Sequential == <<pc, cmd, arg_name, Locals, History, dir0, result>>
Parked ==
    /\ pc = "idle" /\ cmd = "none" /\ arg_name = "" /\ pod_id = "" /\ pod = None
    /\ pod_info = None /\ endpoint = "" /\ deadline = 0 /\ now = 0 /\ latency = 0
    /\ polls = 0 /\ ready_poll = 0 /\ todo = <<>> /\ log = <<>> /\ failure = ""
    /\ listed = {} /\ created = "" /\ dir0 = <<>> /\ result = "none"

InitRace ==
    /\ pods_dir = <<>> /\ provider = <<>> /\ issued = 0
    /\ Parked
    /\ procs = [p \in Procs |-> IdleProc]
    /\ last_write = <<>>
    /\ input = <<>> /\ output = <<>> /\ disk = <<>>

\* process p moves to position to, with the fields of its locals in new
Move(p, to, new) ==
    procs' = [procs EXCEPT ![p] = [k \in DOMAIN IdleProc |->
                 IF k = "pc" THEN to ELSE IF k \in DOMAIN new THEN new[k] ELSE procs[p][k]]]

\* process p, running command c on name n, ends without having written: r
\* is how (an exit code, SystemExit, a traceback); its locals die with it
Fail(p, c, n, r) ==
    procs' = [procs EXCEPT ![p] = [IdleProc EXCEPT !.pc = "done", !.cmd = c, !.name = n,
                                                   !.result = r]]

\* the last write to the file of name: a save or a clear, and the pod id the
\* writer held
Wrote(p, op, name) ==
    last_write' = (name :> [op |-> op, pod_id |-> procs[p].pod_id])
                  @@ Remove(last_write, name)

\* up, lines 105-159: the existing-record check; proceeds is FALSE when a
\* lookup fails or the run is a dry run
RaceUpBegin(p, name, proceeds) ==
    /\ procs[p].pc = "idle"
    /\ IF _load_state(pods_dir, name) # None
       THEN Fail(p, "up", name, "exit1")
       ELSE IF ~proceeds
            THEN Fail(p, "up", name, "exit")
            ELSE Move(p, "create", [cmd |-> "up", name |-> name])
    /\ UNCHANGED <<pods_dir, provider, issued, last_write, input, output, disk, Sequential>>

\* up, lines 161-170
RaceUpCreate(p, accepted) ==
    /\ procs[p].pc = "create"
    /\ IF accepted
       THEN /\ issued < MaxPods
            /\ LET id == PodId(issued + 1)
               IN  /\ provider' = (id :> NewPod(id, procs[p].name)) @@ provider
                   /\ Move(p, "ready", [pod_id |-> id])
            /\ issued' = issued + 1
       ELSE /\ Fail(p, "up", procs[p].name, "SystemExit")
            /\ UNCHANGED <<provider, issued>>
    /\ UNCHANGED <<pods_dir, last_write, input, output, disk, Sequential>>

\* up, lines 172-190: wait_for_ready, get_endpoint, pull_model.  how is
\* "ready" (the pod came up and the pull succeeded; info is the record
\* wait_for_ready returned), "failed" (the wait timed out or the pull failed:
\* terminate_pod) or "error" (a status call raised)
RaceUpReady(p, how) ==
    /\ procs[p].pc = "ready"
    /\ LET id == procs[p].pod_id
       IN  CASE how = "ready" ->
                  /\ Exists(id)
                  /\ LET info == [provider[id] EXCEPT !.runtime = Some(TcpRuntime)]
                     IN  Move(p, "save", [endpoint |-> get_endpoint(info)])
                  /\ UNCHANGED provider
            [] how = "failed" ->
                  \E out \in TerminateOutcomes(id) :
                      /\ provider' = out.provider
                      /\ Fail(p, "up", procs[p].name, IF out.raised THEN "Exception" ELSE "exit1")
            [] OTHER ->
                  /\ Fail(p, "up", procs[p].name, "Exception")
                  /\ UNCHANGED provider
    /\ UNCHANGED <<pods_dir, issued, last_write, input, output, disk, Sequential>>

\* up, lines 192-202
RaceUpSave(p) ==
    /\ procs[p].pc = "save"
    /\ pods_dir' = _save_state(pods_dir, procs[p].name,
                      [pod_id |-> procs[p].pod_id, model |-> Model, endpoint |-> procs[p].endpoint])
    /\ Wrote(p, "save", procs[p].name)
    /\ Move(p, "done", [result |-> "ok"])
    /\ UNCHANGED <<provider, issued, input, output, disk, Sequential>>

\* down, lines 219-229
RaceDownBegin(p, name) ==
    /\ procs[p].pc = "idle"
    /\ LET state == _load_state(pods_dir, name)
       IN  IF state = None
           THEN Fail(p, "down", name, "exit1")
           ELSE Move(p, "terminate", [cmd |-> "down", name |-> name, pod_id |-> state[1].pod_id])
    /\ UNCHANGED <<pods_dir, provider, issued, last_write, input, output, disk, Sequential>>

\* down, lines 230-231
RaceDownTerminate(p) ==
    /\ procs[p].pc = "terminate"
    /\ \E out \in TerminateOutcomes(procs[p].pod_id) :
        /\ provider' = out.provider
        /\ IF out.raised THEN Fail(p, "down", procs[p].name, "Exception")
           ELSE Move(p, "clear", <<>>)
    /\ UNCHANGED <<pods_dir, issued, last_write, input, output, disk, Sequential>>

\* down, lines 233-236
RaceDownClear(p) ==
    /\ procs[p].pc = "clear"
    /\ pods_dir' = _clear_state(pods_dir, procs[p].name)
    /\ Wrote(p, "clear", procs[p].name)
    /\ Move(p, "done", [result |-> "ok"])
    /\ UNCHANGED <<provider, issued, input, output, disk, Sequential>>

\* the process ends; the operator may start another invocation in its terminal
RaceExit(p) ==
    /\ procs[p].pc = "done"
    /\ procs' = [procs EXCEPT ![p] = IdleProc]
    /\ UNCHANGED <<pods_dir, provider, issued, last_write, input, output, disk, Sequential>>

NextRace ==
    \/ \E p \in Procs, name \in Names, proceeds \in BOOLEAN : RaceUpBegin(p, name, proceeds)
    \/ \E p \in Procs, accepted \in BOOLEAN : RaceUpCreate(p, accepted)
    \/ \E p \in Procs, how \in {"ready", "failed", "error"} : RaceUpReady(p, how)
    \/ \E p \in Procs : RaceUpSave(p)
    \/ \E p \in Procs, name \in Names : RaceDownBegin(p, name)
    \/ \E p \in Procs : RaceDownTerminate(p)
    \/ \E p \in Procs : RaceDownClear(p)
    \/ \E p \in Procs : RaceExit(p)

SpecRace == InitRace /\ [][NextRace]_vars

(***************************************************************************)
(* down twice in a row (cli.py 214-236): the same command line run again   *)
(* as soon as the first run has ended, nothing else touching the files or  *)
(* the account in between.  input is the --name of both runs, output the   *)
(* runs that have ended.                                                   *)
(***************************************************************************)
\* a pod an earlier up --name name created and saw running
RunningPod(id, name) == [NewPod(id, name) EXCEPT !.runtime = Some(TcpRuntime)]

InitTwice ==
    /\ \E f \in [Names -> {0} \cup (1..MaxPods)] :
          pods_dir = [n \in {m \in Names : f[m] # 0} |->
                         [pod_id |-> PodId(f[n]), model |-> Model,
                          endpoint |-> get_endpoint(RunningPod(PodId(f[n]), n)), name |-> n]]
    /\ \E alive \in SUBSET (1..MaxPods) :
          provider = [id \in {PodId(i) : i \in alive} |-> RunningPod(id, "a")]
    /\ issued = MaxPods
    /\ Parked
    /\ procs = <<>> /\ last_write = <<>>
    /\ input \in Names
    /\ output = <<>>
    /\ disk = <<>>

\* the operator runs `down --name input`, for the first or the second time
TwiceBegin ==
    /\ Len(output) < 2
    /\ DownBegin(input)

\* the run has ended: what it did and what it left
TwiceEnd ==
    /\ pc = "done"
    /\ output' = Append(output, [dir |-> pods_dir, provider |-> provider, log |-> log,
                                 failure |-> failure, result |-> result])
    /\ pc' = "idle"
    /\ cmd' = "none" /\ arg_name' = "" /\ pod_id' = "" /\ pod' = None
    /\ pod_info' = None /\ endpoint' = "" /\ deadline' = 0 /\ now' = 0
    /\ latency' = 0 /\ polls' = 0 /\ ready_poll' = 0 /\ todo' = <<>>
    /\ log' = <<>> /\ failure' = "" /\ listed' = {} /\ created' = ""
    /\ dir0' = <<>> /\ result' = "none"
    /\ UNCHANGED <<pods_dir, provider, issued, procs, last_write, input, disk>>

NextTwice ==
    \/ TwiceBegin
    \/ DownTerminate
    \/ DownClear
    \/ TwiceEnd

SpecTwice == InitTwice /\ [][NextTwice]_vars

(***************************************************************************)
(* The record files as text (cli.py 34-56): json.dumps on the way to the   *)
(* disk, json.loads on the way back.  Text is a sequence of characters.    *)
(* A Python value is <<"str", characters>>, <<"num", n>> or <<"null", 0>>. *)
(***************************************************************************)
Str(chars) == <<"str", chars>>
Num(n) == <<"num", n>>
Null == <<"null", 0>>

Quote == "\""
Backslash == "\\"
Whitespace == {" ", "\n"}
Digits == {"0", "1", "2", "3", "4", "5", "6", "7", "8", "9"}

\* the keys of a tracked record, in the order up's dict literal gives them
\* (lines 193-201), "name" last as _save_state adds it; each with its text
FieldOrder == <<"pod_id", "cost_per_hr", "network_volume_id", "name">>
KeyChars ==
    [pod_id |-> <<"p", "o", "d", "_", "i", "d">>,
     cost_per_hr |-> <<"c", "o", "s", "t", "_", "p", "e", "r", "_", "h", "r">>,
     network_volume_id |-> <<"n", "e", "t", "w", "o", "r", "k", "_", "v", "o", "l", "u", "m", "e",
                             "_", "i", "d">>,
     name |-> <<"n", "a", "m", "e">>]

\* an encoder that writes the characters of a string as they are
Escape_None(chars) == chars

\* the encoder's string escapes: \" for the quote, \\ for the backslash
RECURSIVE Escape(_)
Escape(chars) ==
    IF chars = <<>> THEN <<>>
    ELSE (IF Head(chars) \in {Quote, Backslash} THEN <<Backslash, Head(chars)>>
          ELSE <<Head(chars)>>) \o Escape(Tail(chars))

EncodeString(chars) == <<Quote>> \o Escape(chars) \o <<Quote>>

EncodeValue(v) ==
    CASE v[1] = "str" -> EncodeString(v[2])
      [] v[1] = "num" -> DigitChars(v[2])
      [] OTHER -> <<"n", "u", "l", "l">>

\* the members of the object, one per line, indented by two
RECURSIVE EncodeMembers(_, _)
EncodeMembers(doc, keys) ==
    IF keys = <<>> THEN <<>>
    ELSE LET k == Head(keys)
             rest == EncodeMembers(doc, Tail(keys))
         IN  <<"\n", " ", " ">> \o EncodeString(KeyChars[k]) \o <<":", " ">>
             \o EncodeValue(doc[k]) \o (IF rest = <<>> THEN <<>> ELSE <<",">> \o rest)

Present(doc, keys) == SelectSeq(keys, LAMBDA k : k \in DOMAIN doc)

\* json.dumps(state, indent=2)
json_dumps(doc) ==
    IF DOMAIN doc = {} THEN <<"{", "}">>
    ELSE <<"{">> \o EncodeMembers(doc, Present(doc, FieldOrder)) \o <<"\n", "}">>

\* the decoder gives up: json.JSONDecodeError
Bad == [ok |-> FALSE, val |-> <<>>, next |-> 0]
Good(val, next) == [ok |-> TRUE, val |-> val, next |-> next]

RECURSIVE SkipWs(_, _)
SkipWs(text, i) ==
    IF i <= Len(text) /\ text[i] \in Whitespace THEN SkipWs(text, i + 1) ELSE i

At(text, i, c) == i <= Len(text) /\ text[i] = c

\* the characters of a string, from the one after its opening quote
RECURSIVE DecodeChars(_, _, _)
DecodeChars(text, i, acc) ==
    IF i > Len(text) THEN Bad
    ELSE IF text[i] = Quote THEN Good(acc, i + 1)
    ELSE IF text[i] = Backslash
         THEN IF i + 1 <= Len(text) /\ text[i + 1] \in {Quote, Backslash}
              THEN DecodeChars(text, i + 2, Append(acc, text[i + 1]))
              ELSE Bad
    ELSE DecodeChars(text, i + 1, Append(acc, text[i]))

DigitValue(c) == CHOOSE d \in 0..9 : ToString(d) = c

RECURSIVE DecodeNumber(_, _, _)
DecodeNumber(text, i, acc) ==
    IF i <= Len(text) /\ text[i] \in Digits
    THEN DecodeNumber(text, i + 1, 10 * acc + DigitValue(text[i]))
    ELSE Good(Num(acc), i)

DecodeValue(text, i) ==
    IF At(text, i, Quote)
    THEN LET r == DecodeChars(text, i + 1, <<>>)
         IN  IF r.ok THEN Good(Str(r.val), r.next) ELSE Bad
    ELSE IF i <= Len(text) /\ text[i] \in Digits
    THEN DecodeNumber(text, i, 0)
    ELSE IF i + 3 <= Len(text) /\ SubSeq(text, i, i + 3) = <<"n", "u", "l", "l">>
    THEN Good(Null, i + 4)
    ELSE Bad

\* the members of an object, from the first key; acc is the dict so far (a
\* key met again replaces its value)
RECURSIVE DecodeMembers(_, _, _)
DecodeMembers(text, i, acc) ==
    IF ~At(text, i, Quote) THEN Bad
    ELSE LET key == DecodeChars(text, i + 1, <<>>)
         IN  IF ~key.ok \/ ~(\E k \in DOMAIN KeyChars : KeyChars[k] = key.val) THEN Bad
             ELSE LET k == CHOOSE f \in DOMAIN KeyChars : KeyChars[f] = key.val
                      colon == SkipWs(text, key.next)
                  IN  IF ~At(text, colon, ":") THEN Bad
                      ELSE LET v == DecodeValue(text, SkipWs(text, colon + 1))
                           IN  IF ~v.ok THEN Bad
                               ELSE LET dict == (k :> v.val) @@ acc
                                        after == SkipWs(text, v.next)
                                    IN  IF At(text, after, "}") THEN Good(dict, after + 1)
                                        ELSE IF At(text, after, ",")
                                        THEN DecodeMembers(text, SkipWs(text, after + 1), dict)
                                        ELSE Bad

\* json.loads(text): an object and nothing after it, or JSONDecodeError
json_loads(text) ==
    LET open == SkipWs(text, 1)
    IN  IF ~At(text, open, "{") THEN Bad
        ELSE LET first == SkipWs(text, open + 1)
                 r == IF At(text, first, "}") THEN Good(<<>>, first + 1)
                      ELSE DecodeMembers(text, first, <<>>)
             IN  IF r.ok /\ SkipWs(text, r.next) = Len(text) + 1 THEN r ELSE Bad

(***************************************************************************)
(* _save_state, _load_state and _clear_state called on their own, in any   *)
(* order: input is the record handed to _save_state, output the last call  *)
(***************************************************************************)
\* the names the calls are made with: --name takes any string (quotes and
\* backslashes are legal in a file name; a slash makes a path)
StateNames == {Str(<<"a">>), Str(<<"b", Quote>>), Str(<<"a", "/", "b">>)}

\* _pod_file(name) lies in PODS_DIR itself, the one directory _save_state
\* makes; behind a slash it lies in a directory nothing has made
InPodsDir(name) == \A i \in DOMAIN name[2] : name[2][i] # "/"

\* the records handed to _save_state: what up builds (lines 193-201), what
\* _sync_from_runpod builds (lines 72-80: a cost may be "unknown"), and a
\* record that was loaded before and has a name already
StateRecords ==
    LET fresh == { [pod_id |-> Str(<<"p", "1">>), cost_per_hr |-> c, network_volume_id |-> v] :
                     c \in {Num(0), Num(25), Str(<<"2", "5">>)},
                     v \in {Null, Str(<<>>), Str(<<"n", "u", "l", "l">>), Str(<<Quote>>),
                            Str(<<Backslash, Quote>>), Str(<<"a", Backslash>>)} }
    IN  fresh \cup { r @@ [name |-> n] : r \in fresh, n \in StateNames }

InitState ==
    /\ pods_dir = <<>> /\ disk = <<>>
    /\ provider = <<>> /\ issued = 0
    /\ Parked
    /\ procs = <<>> /\ last_write = <<>>
    /\ input \in StateRecords
    /\ output = [op |-> "none", name |-> Str(<<>>), ret |-> None, raised |-> "",
                 before |-> <<>>, disk_before |-> <<>>]

Returned(op, name, ret, raised) ==
    output' = [op |-> op, name |-> name, ret |-> ret, raised |-> raised,
               before |-> pods_dir, disk_before |-> disk]

\* _save_state(name, input): the document, and the text write_text puts on
\* disk; write_text raises when the directory of the path is not there
SaveCall(name) ==
    /\ IF InPodsDir(name)
       THEN /\ pods_dir' = _save_state(pods_dir, name, input)
            /\ disk' = (name :> json_dumps(pods_dir'[name])) @@ Remove(disk, name)
            /\ Returned("save", name, None, "")
       ELSE /\ Returned("save", name, None, "FileNotFoundError")
            /\ UNCHANGED <<pods_dir, disk>>
    /\ UNCHANGED <<provider, issued, procs, last_write, input, Sequential>>

\* _load_state(name): None without the file, else json.loads of its text
LoadCall(name) ==
    /\ IF name \notin DOMAIN disk THEN Returned("load", name, None, "")
       ELSE LET r == json_loads(disk[name])
            IN  IF r.ok THEN Returned("load", name, Some(r.val), "")
                ELSE Returned("load", name, None, "JSONDecodeError")
    /\ UNCHANGED <<pods_dir, disk, provider, issued, procs, last_write, input, Sequential>>

\* _clear_state(name)
ClearCall(name) ==
    /\ pods_dir' = _clear_state(pods_dir, name)
    /\ disk' = IF name \in DOMAIN disk THEN Remove(disk, name) ELSE disk
    /\ Returned("clear", name, None, "")
    /\ UNCHANGED <<provider, issued, procs, last_write, input, Sequential>>

NextState ==
    \/ \E name \in StateNames : SaveCall(name)
    \/ \E name \in StateNames : LoadCall(name)
    \/ \E name \in StateNames : ClearCall(name)

SpecState == InitState /\ [][NextState]_vars

(***************************************************************************)
(* gpu.py: _get_price_and_cloud on one SKU detail                          *)
(***************************************************************************)
CloudTypes == {"any", "community", "secure"}

\* a price field of a detail: absent or null (None), or a number, 0 included
OptPrices == {None} \cup {Some(n) : n \in 0..MaxPrice}

\* the details runpod.get_gpu may answer with; lowestPrice stands for
\* lowestPrice.uninterruptablePrice, an availability flag that is absent or
\* null for FALSE
Details ==
    [communityCloud : BOOLEAN, secureCloud : BOOLEAN,
     communityPrice : OptPrices, securePrice : OptPrices, lowestPrice : OptPrices]

\* a price as a condition (`if price`, `or None`, `if p`): None and 0 are falsy
HasPrice(p) == p # None /\ p[1] # 0

\* a lookup that sells a SKU by its price alone, whatever its availability flag
OwnCloud_IgnoresFlag(detail, cloud) ==
    LET price == IF cloud = "community" THEN detail.communityPrice ELSE detail.securePrice
    IN  IF HasPrice(price) THEN Some(<<price[1], cloud>>) ELSE None

\* lines 14-24: cloud_type "community" or "secure"
OwnCloud(detail, cloud) ==
    LET flag == IF cloud = "community" THEN detail.communityCloud ELSE detail.secureCloud
        price == IF cloud = "community" THEN detail.communityPrice ELSE detail.securePrice
    IN  IF ~flag THEN None
        ELSE IF HasPrice(price) THEN Some(<<price[1], cloud>>) ELSE None

\* the least of the two own prices, the provider's lowest price unread
AnyPrice_OwnPricesOnly(detail) ==
    LET prices == {p \in {detail.communityPrice, detail.securePrice} : HasPrice(p)}
    IN  IF prices = {} THEN None
        ELSE CHOOSE p \in prices : \A q \in prices : p[1] <= q[1]

\* lines 27-34: the price under "any"
AnyPrice(detail) ==
    IF HasPrice(detail.lowestPrice) THEN detail.lowestPrice
    ELSE LET prices == {p \in {detail.communityPrice, detail.securePrice} : HasPrice(p)}
         IN  IF prices = {} THEN None
             ELSE CHOOSE p \in prices : \A q \in prices : p[1] <= q[1]

\* a resolution that takes community only when secure is available too
Resolved_WhenBoth(detail) ==
    IF detail.communityCloud /\ detail.secureCloud THEN "community" ELSE "secure"

\* line 44
Resolved(detail) == IF detail.communityCloud THEN "community" ELSE "secure"

\* (price, resolved_cloud_type) as <<price, cloud>>, or None
_get_price_and_cloud(detail, cloud_type) ==
    IF cloud_type \in {"community", "secure"} THEN OwnCloud(detail, cloud_type)
    ELSE LET price == AnyPrice(detail)
         IN  IF price = None THEN None
             ELSE IF ~(detail.communityCloud \/ detail.secureCloud) THEN None
             ELSE Some(<<price[1], Resolved(detail)>>)

\* one call: input is <<detail, cloud_type>>, output what it returned
InitPrice ==
    /\ pods_dir = <<>> /\ disk = <<>> /\ provider = <<>> /\ issued = 0
    /\ Parked
    /\ procs = <<>> /\ last_write = <<>>
    /\ input \in [detail : Details, cloud_type : CloudTypes]
    /\ output = [called |-> FALSE, ret |-> None]

PriceCall ==
    /\ ~output.called
    /\ output' = [called |-> TRUE, ret |-> _get_price_and_cloud(input.detail, input.cloud_type)]
    /\ UNCHANGED <<pods_dir, disk, provider, issued, procs, last_write, input, Sequential>>

NextPrice == PriceCall

SpecPrice == InitPrice /\ [][NextPrice]_vars

(***************************************************************************)
(* gpu.py: find_cheapest_gpu (lines 57-85).  input is the call and the SKU *)
(* list runpod.get_gpus answered; output is the function's position, its   *)
(* locals, and what each runpod.get_gpu lookup came to                     *)
(***************************************************************************)
VramSizes == {24, 48}
MinVrams == {10, 24, 30, 100}

GpuId(i) == "g" \o ToString(i)

\* the lists runpod.get_gpus may answer with
GpuLists ==
    UNION { [1..n -> VramSizes] : n \in 0..MaxGpus }

\* a filter that wants more VRAM than the minimum
Eligible_Strict(gpu, min_vram_gb) == gpu.memoryInGb > min_vram_gb

\* line 58
Eligible(gpu, min_vram_gb) == gpu.memoryInGb >= min_vram_gb

\* a comparison that lets a later SKU of the same price take over
Improves_OnTies(price, best) == best = None \/ price <= best[1][2]

\* line 75
Improves(price, best) == best = None \/ price < best[1][2]

\* the two messages find_cheapest_gpu exits with
NoCandidates == "No GPUs found"
NoneAvailable_SameMessage == "No GPUs found"
NoneAvailable == "No available GPUs"

InitGpu ==
    /\ pods_dir = <<>> /\ disk = <<>> /\ provider = <<>> /\ issued = 0
    /\ Parked
    /\ procs = <<>> /\ last_write = <<>>
    /\ \E sizes \in GpuLists, min \in MinVrams, ct \in CloudTypes :
          input = [gpus |-> [i \in DOMAIN sizes |-> [id |-> GpuId(i), memoryInGb |-> sizes[i]]],
                   min_vram_gb |-> min, cloud_type |-> ct]
    /\ output = [pc |-> "start", candidates |-> <<>>, best |-> None, looked_up |-> <<>>,
                 raised |-> "", ret |-> None]

\* lines 57-66
GpuFilter ==
    /\ output.pc = "start"
    /\ LET candidates == SelectSeq(input.gpus, LAMBDA g : Eligible(g, input.min_vram_gb))
       IN  output' = IF candidates = <<>>
                     THEN [output EXCEPT !.pc = "done", !.raised = NoCandidates]
                     ELSE [output EXCEPT !.pc = "loop", !.candidates = candidates]
    /\ UNCHANGED <<pods_dir, disk, provider, issued, procs, last_write, input, Sequential>>

\* lines 68-76: one turn of the loop; detail is what runpod.get_gpu answered
GpuLookup(detail) ==
    /\ output.pc = "loop"
    /\ Len(output.looked_up) < Len(output.candidates)
    /\ LET gpu == output.candidates[Len(output.looked_up) + 1]
           found == _get_price_and_cloud(detail, input.cloud_type)
       IN  output' = [output EXCEPT
                         !.looked_up = Append(@, [id |-> gpu.id, result |-> found]),
                         !.best = IF found # None /\ Improves(found[1][1], output.best)
                                  THEN Some(<<gpu.id, found[1][1], found[1][2]>>)
                                  ELSE @]
    /\ UNCHANGED <<pods_dir, disk, provider, issued, procs, last_write, input, Sequential>>

\* lines 78-85
GpuReturn ==
    /\ output.pc = "loop"
    /\ Len(output.looked_up) = Len(output.candidates)
    /\ output' = IF output.best = None
                 THEN [output EXCEPT !.pc = "done", !.raised = NoneAvailable]
                 ELSE [output EXCEPT !.pc = "done", !.ret = output.best]
    /\ UNCHANGED <<pods_dir, disk, provider, issued, procs, last_write, input, Sequential>>

NextGpu ==
    \/ GpuFilter
    \/ \E detail \in Details : GpuLookup(detail)
    \/ GpuReturn

SpecGpu == InitGpu /\ [][NextGpu]_vars

(***************************************************************************)
(* pod.py: create_ollama_pod (lines 31-79).  input is the call (an omitted *)
(* keyword is None), output the function's position, the request it built, *)
(* the request runpod.create_pod received, and what the call came to       *)
(***************************************************************************)
OLLAMA_IMAGE == "surajarogyalabs/kenai-ollama:latest"

\* lines 14-18: the cloudType values of the create mutation
CLOUD_TYPE_MAP == [any |-> "ALL", community |-> "COMMUNITY", secure |-> "SECURE"]
MutationCloudTypes == {CLOUD_TYPE_MAP[c] : c \in DOMAIN CLOUD_TYPE_MAP}

\* str.lower() on the values cloud_type takes
Lower(s) == CASE s = "ALL" -> "all"
              [] s = "COMMUNITY" -> "community"
              [] s = "SECURE" -> "secure"
              [] OTHER -> s

\* the calls: each keyword omitted (None) or passed; --volume-id "" and
\* --image "" reach the function as empty strings
CreateCalls ==
    [gpu_type_id : {"NVIDIA RTX 4090", "NVIDIA A40"},
     name : {None, Some("a")},
     network_volume_id : {None, Some(""), Some("vol-1")},
     cloud_type : {None} \cup {Some(c) : c \in MutationCloudTypes},
     image : {None, Some(""), Some("custom/ollama:1")}]

\* what str(exc) of a QueryError may read
Rejections == {"There are no longer any instances available", "Something went wrong"}

\* the value a parameter has in the body: the default when the keyword is omitted
Param(passed, default) == IF passed = None THEN default ELSE passed[1]

\* a string or None as a condition (`if network_volume_id`, `image or ...`):
\* None and "" are falsy
Given(v) == v # None /\ v[1] # ""

\* a request that asks for the inline volume whether or not one is attached
DiskConfig_AlwaysInline(network_volume_id) ==
    IF Given(network_volume_id)
    THEN [network_volume_id |-> network_volume_id[1], volume_mount_path |-> "/runpod-volume",
          volume_in_gb |-> 50]
    ELSE [volume_in_gb |-> 50]

\* lines 58-62
DiskConfig(network_volume_id) ==
    IF Given(network_volume_id)
    THEN [network_volume_id |-> network_volume_id[1], volume_mount_path |-> "/runpod-volume"]
    ELSE [volume_in_gb |-> 50]

\* lines 49-62: kwargs
Kwargs(call) ==
    [name |-> OllamaName(Param(call.name, "default")),
     image_name |-> IF Given(call.image) THEN call.image[1] ELSE OLLAMA_IMAGE,
     gpu_type_id |-> call.gpu_type_id,
     cloud_type |-> Param(call.cloud_type, "ALL"),
     ports |-> OllamaPorts,
     container_disk_in_gb |-> 20]
    @@ DiskConfig(call.network_volume_id)

\* a handler that blames the datacenter whenever a volume is attached
Diagnosed_AnyVolume(network_volume_id, cloud_type) == Given(network_volume_id)

\* line 69
Diagnosed(network_volume_id, cloud_type) == Given(network_volume_id) /\ cloud_type # "ALL"

\* lines 67-77: the text SystemExit carries, as the parts of the f-strings
RejectionMessage(call, msg) ==
    LET cloud_type == Param(call.cloud_type, "ALL")
    IN  IF Diagnosed(call.network_volume_id, cloud_type)
        THEN <<"RunPod rejected deployment: ", msg, "\n",
               "  GPU ", call.gpu_type_id, " may not be available as ",
               Lower(cloud_type), " cloud in the datacenter ",
               "pinned by volume ", call.network_volume_id[1], ".\n",
               "  Try --cloud-type any, or pick a different --gpu-type.">>
        ELSE <<"RunPod rejected deployment: ", msg>>

InitCreate ==
    /\ pods_dir = <<>> /\ disk = <<>> /\ provider = <<>> /\ issued = 0
    /\ Parked
    /\ procs = <<>> /\ last_write = <<>>
    /\ input \in CreateCalls
    /\ output = [pc |-> "start", kwargs |-> <<>>, request |-> None, raised |-> None, ret |-> None]

\* lines 49-62
CreateBuild ==
    /\ output.pc = "start"
    /\ output' = [output EXCEPT !.pc = "call", !.kwargs = Kwargs(input)]
    /\ UNCHANGED <<pods_dir, disk, provider, issued, procs, last_write, input, Sequential>>

\* lines 64-79: runpod.create_pod(**kwargs) answers with a pod or raises
\* QueryError(msg); rejected = "" is the provider accepting
CreateSend(rejected) ==
    /\ output.pc = "call"
    /\ issued < MaxPods
    /\ LET id == PodId(issued + 1)
       IN  IF rejected = ""
           THEN /\ provider' = (id :> NewPod(id, Param(input.name, "default"))) @@ provider
                /\ issued' = issued + 1
                /\ output' = [output EXCEPT !.pc = "done", !.request = Some(output.kwargs),
                                            !.ret = Some(id)]
           ELSE /\ output' = [output EXCEPT !.pc = "done", !.request = Some(output.kwargs),
                                            !.raised = Some(RejectionMessage(input, rejected))]
                /\ UNCHANGED <<provider, issued>>
    /\ UNCHANGED <<pods_dir, disk, procs, last_write, input, Sequential>>

NextCreate ==
    \/ CreateBuild
    \/ \E rejected \in Rejections \cup {""} : CreateSend(rejected)

SpecCreate == InitCreate /\ [][NextCreate]_vars

(***************************************************************************)
(* pod.py: get_endpoint (lines 96-112) called on an instance record, twice *)
(* over.  input is the record, output the values the calls returned        *)
(***************************************************************************)
\* the entries a port-mapping list may hold; ip "" is an entry without an
\* address (absent, null or empty)
PortInfos ==
    [privatePort : {OLLAMA_PORT, 8888}, publicPort : {30042, 443},
     ip : {"", "194.68.1.1", "10.0.0.2"}, type : {"tcp", "http"}]

PortLists == UNION { [1..n -> PortInfos] : n \in 0..MaxPorts }

\* the instance records: no runtime yet, or a runtime with its list
InstanceRecords ==
    [id : {"abc123"}, runtime : {None} \cup {Some([ports |-> l]) : l \in PortLists}]

InitEndpoint ==
    /\ pods_dir = <<>> /\ disk = <<>> /\ provider = <<>> /\ issued = 0
    /\ Parked
    /\ procs = <<>> /\ last_write = <<>>
    /\ input \in InstanceRecords
    /\ output = <<>>

EndpointCall ==
    /\ Len(output) < 2
    /\ output' = Append(output, get_endpoint(input))
    /\ UNCHANGED <<pods_dir, disk, provider, issued, procs, last_write, input, Sequential>>

NextEndpoint == EndpointCall

SpecEndpoint == InitEndpoint /\ [][NextEndpoint]_vars

(***************************************************************************)
(* model_info.py: get_model_size_gb (lines 17-36).  input is the model     *)
(* argument and what the registry answers (status code, manifest layers),  *)
(* output the function's position, its locals and what the call came to    *)
(***************************************************************************)
MODEL_MEDIA_TYPE == "application/vnd.ollama.image.model"
LicenseMediaType == "application/vnd.ollama.image.license"
BytesPerGb == 1024 * 1024 * 1024

\* model arguments, as characters: with a tag, without one, with two colons
ModelArgs == { <<"q", "w", ":", "7", "b">>, <<"l", "3">>, <<"m", ":", "t", ":", "x">> }

\* the position of the first ":" of a text, 0 when it has none
FirstColon(text) ==
    IF \E i \in DOMAIN text : text[i] = ":"
    THEN CHOOSE i \in DOMAIN text : text[i] = ":" /\ \A j \in 1..(i - 1) : text[j] # ":"
    ELSE 0

\* lines 8-14: (name, tag)
parse_model(model) ==
    LET at == FirstColon(model)
    IN  IF at # 0
        THEN <<SubSeq(model, 1, at - 1), SubSeq(model, at + 1, Len(model))>>
        ELSE <<model, <<"l", "a", "t", "e", "s", "t">> >>

\* a layer of a manifest; mediaType "" is a layer without the key
Layers ==
    [mediaType : {MODEL_MEDIA_TYPE, LicenseMediaType, ""}, size : {0, 1000, BytesPerGb \div 2}]

Manifests == UNION { [1..n -> Layers] : n \in 0..MaxLayers }

\* status codes of the registry's answer
StatusCodes == {200, 404, 500}

\* a sum that takes every layer for a weight layer
IsWeight_Any(layer) == TRUE

\* line 31
IsWeight(layer) == layer.mediaType = MODEL_MEDIA_TYPE

\* lines 28-32: sum(layer["size"] for layer in layers if ...)
RECURSIVE SumSizes(_)
SumSizes(layers) ==
    IF layers = <<>> THEN 0
    ELSE (IF IsWeight(Head(layers)) THEN Head(layers).size ELSE 0) + SumSizes(Tail(layers))

InitSize ==
    /\ pods_dir = <<>> /\ disk = <<>> /\ provider = <<>> /\ issued = 0
    /\ Parked
    /\ procs = <<>> /\ last_write = <<>>
    /\ input \in [model : ModelArgs, status_code : StatusCodes, layers : Manifests]
    /\ output = [pc |-> "start", url |-> <<>>, manifest |-> None, total_bytes |-> 0,
                 raised |-> "", ret |-> None]

\* lines 19-25: the request; 404 and the other error statuses end the call
SizeRequest ==
    /\ output.pc = "start"
    /\ LET parsed == parse_model(input.model)
           url == <<"https://registry.ollama.ai/v2/library", "/", parsed[1], "/manifests/", parsed[2]>>
       IN  output' =
              IF input.status_code = 404
              THEN [output EXCEPT !.pc = "done", !.url = url, !.raised = "Model not found"]
              ELSE IF input.status_code >= 400
              THEN [output EXCEPT !.pc = "done", !.url = url, !.raised = "HTTPStatusError"]
              ELSE [output EXCEPT !.pc = "answered", !.url = url]
    /\ UNCHANGED <<pods_dir, disk, provider, issued, procs, last_write, input, Sequential>>

\* lines 27-36: the manifest is read and summed; the size in GB is
\* total_bytes / 1024**3, kept as the pair <<total_bytes, 1024**3>>
SizeSum ==
    /\ output.pc = "answered"
    /\ LET manifest == input.layers
           total_bytes == SumSizes(manifest)
       IN  output' =
              IF total_bytes = 0
              THEN [output EXCEPT !.pc = "done", !.manifest = Some(manifest),
                                  !.raised = "No model layers found"]
              ELSE [output EXCEPT !.pc = "done", !.manifest = Some(manifest),
                                  !.total_bytes = total_bytes,
                                  !.ret = Some(<<total_bytes, BytesPerGb>>)]
    /\ UNCHANGED <<pods_dir, disk, provider, issued, procs, last_write, input, Sequential>>

NextSize ==
    \/ SizeRequest
    \/ SizeSum

SpecSize == InitSize /\ [][NextSize]_vars

(***************************************************************************)
(* Lost records: up, down and status (cli.py 93-303) on a machine whose    *)
(* PODS_DIR is emptied after an up has succeeded (the directory removed,   *)
(* another machine, a fresh home).  input remembers the name and the pod   *)
(* id of the record that up had saved: <<name, pod_id>>                    *)
(***************************************************************************)
InitLost ==
    /\ pods_dir = <<>> /\ provider = <<>> /\ issued = 0
    /\ Parked
    /\ procs = <<>> /\ last_write = <<>> /\ disk = <<>>
    /\ input = <<>>
    /\ output = <<>>

\* the up that just succeeded ends, and the records are lost before the
\* next invocation
LoseRecords ==
    /\ pc = "done" /\ cmd = "up" /\ result = "ok"
    /\ input' = <<arg_name, pod_id>>
    /\ pods_dir' = <<>>
    /\ pc' = "idle"
    /\ cmd' = "none" /\ arg_name' = "" /\ pod_id' = "" /\ pod' = None
    /\ pod_info' = None /\ endpoint' = "" /\ deadline' = 0 /\ now' = 0
    /\ latency' = 0 /\ polls' = 0 /\ ready_poll' = 0 /\ todo' = <<>>
    /\ log' = <<>> /\ failure' = "" /\ listed' = {} /\ created' = ""
    /\ dir0' = <<>> /\ result' = "none"
    /\ UNCHANGED <<provider, issued, procs, last_write, output, disk>>

NextLost ==
    \/ \E name \in Names, dry_run \in BOOLEAN, lookups_ok \in BOOLEAN :
            UpBegin(name, dry_run, lookups_ok)
    \/ \E accepted \in BOOLEAN : UpCreate(accepted)
    \/ UpWait
    \/ WaitTimeout
    \/ WaitPoll
    \/ UpWaitFailed
    \/ UpEndpoint
    \/ \E pulled \in BOOLEAN : UpPull(pulled)
    \/ UpSave
    \/ LoseRecords
    \/ \E name \in Names : DownBegin(name)
    \/ DownTerminate
    \/ DownClear
    \/ StatusBegin("")
    \/ \E answered \in BOOLEAN : StatusSync(answered)
    \/ StatusPrint
    \/ StatusEnd
    \/ Exit

SpecLost == InitLost /\ [][NextLost]_vars

(***************************************************************************)
(* Properties                                                              *)
(***************************************************************************)
HasStep(step) == \E i \in 1..Len(log) : log[i][1] = step

UpOrder == <<"create", "wait", "endpoint", "pull", "save">>

\* C1: within one up the steps are taken in the order create, wait, endpoint,
\* pull, save (a terminate can only close the sequence); the files change at
\* the save step alone, and an up that got past its first check and stops
\* before the save leaves no record under its name.
C1_UpOrderedSaveLast ==
    cmd = "up" =>
        /\ \A i \in 1..Len(log) :
              \/ log[i][1] = "terminate" /\ i = Len(log)
              \/ i <= Len(UpOrder) /\ log[i][1] = UpOrder[i]
        /\ ~HasStep("save") =>
              /\ pods_dir = dir0
              /\ log # <<>> => _load_state(pods_dir, arg_name) = None
        /\ HasStep("save") =>
              /\ log = << <<"create", created, "">>, <<"wait", created, "">>,
                          <<"endpoint", created, "">>, <<"pull", created, "">>,
                          <<"save", created, "">> >>
              /\ _load_state(pods_dir, arg_name) # None
              /\ pods_dir[arg_name].pod_id = created

\* an up killed after the pull and before the save: four steps taken, no record
C1_Witness ==
    /\ cmd = "up" /\ pc = "done" /\ result = "crash"
    /\ Len(log) = 4 /\ log[4][1] = "pull"
    /\ _load_state(pods_dir, arg_name) = None

\* C2: an up whose wait timed out or whose pull failed has, when it ends,
\* issued terminate once, last, for the pod id create returned, and has saved
\* no record.
C2_FailedUpTerminates ==
    (cmd = "up" /\ pc = "done" /\ result # "crash" /\ failure \in {"timeout", "pull"}) =>
        /\ created # ""
        /\ log[Len(log)][1] = "terminate"
        /\ \A i \in 1..Len(log) :
              log[i][1] = "terminate" => log[i][2] = created /\ i = Len(log)
        /\ ~HasStep("save")
        /\ pods_dir = dir0
        /\ _load_state(pods_dir, arg_name) = None

\* an up that ran into the readiness timeout and has ended
C2_Witness ==
    /\ cmd = "up" /\ pc = "done" /\ failure = "timeout" /\ result = "SystemExit"
    /\ log[Len(log)] = <<"terminate", created, "found">>

\* C3: whenever status looks up a record whose pod the provider does not
\* know, it cleans the record up, so that loading its name gives None, and a
\* status that cleaned up ends normally; a status without --name that ends
\* normally has looked up every record it found.
C3_StatusCleansStale ==
    cmd = "status" =>
        /\ (pc = "done" /\ result = "ok" /\ arg_name = "") =>
              \A n \in DOMAIN dir0 :
                  \E i \in 1..Len(log) : log[i][1] \in {"print", "cleanup"} /\ log[i][2] = n
        /\ \A i \in 1..Len(log) :
              (log[i][1] \in {"print", "cleanup"} /\ log[i][3] = "gone") =>
                  /\ log[i][1] = "cleanup"
                  /\ _load_state(pods_dir, log[i][2]) = None
        /\ (pc = "done" /\ result # "crash" /\ HasStep("cleanup")) => result = "ok"

\* a status that found a record of the directory stale, and has ended
C3_Witness ==
    /\ cmd = "status" /\ pc = "done" /\ result = "ok"
    /\ \E i \in 1..Len(log) :
          /\ log[i][1] = "cleanup" /\ log[i][3] = "gone"
          /\ log[i][2] \in DOMAIN dir0

\* C4: a down whose terminate call meets a pod the provider does not know
\* deletes the record and ends normally.
C4_DownCleansStale ==
    (/\ cmd = "down" /\ pc = "done" /\ result # "crash"
     /\ \E i \in 1..Len(log) : log[i][1] = "terminate" /\ log[i][3] = "gone") =>
        /\ result = "ok"
        /\ _load_state(pods_dir, arg_name) = None

\* C5: a record the invocation found and that is no longer there was deleted
\* by a down whose terminate call succeeded, or by a status lookup that met a
\* pod the provider does not know.
C5_DeletedOnlyWhenGoneOrTerminated ==
    \A n \in DOMAIN dir0 \ DOMAIN pods_dir :
        \/ /\ cmd = "down" /\ n = arg_name /\ failure # "terminate"
           /\ \E i \in 1..Len(log) : log[i][1] = "terminate" /\ log[i][3] = "found"
        \/ /\ cmd = "status"
           /\ \E i \in 1..Len(log) : log[i] = <<"cleanup", n, "gone">>

\* C6: right after _sync_from_runpod there are as many records as the
\* provider has running Ollama pods, each pod's record under the pod's name
\* (its id when the name is unset) and holding the pod's id.
C6_SyncSavesEveryRunningPod ==
    (cmd = "status" /\ log = << <<"list", "", "">> >>) =>
        /\ Cardinality(DOMAIN pods_dir) = Cardinality(listed)
        /\ \A p \in listed :
              LET n == IF p.name # "" THEN p.name ELSE p.id
              IN  /\ _load_state(pods_dir, n) # None
                  /\ pods_dir[n].pod_id = p.id

NoLocalRecord == IF arg_name = "" THEN DOMAIN dir0 = {} ELSE arg_name \notin DOMAIN dir0

\* C7: a down or a status that finds no local record lists the provider's
\* pods before it ends, and none lists them while a local record exists.
C7_FallBackToReconcile ==
    (cmd \in {"down", "status"} /\ pc = "done" /\ result # "crash") =>
        /\ NoLocalRecord => HasStep("list")
        /\ HasStep("list") => DOMAIN dir0 = {}

\* C8: no two tracked records carry the same name, and an up whose name has a
\* record ends with exit code 1 without a create call, the files unchanged.
C8_OneRecordPerName ==
    /\ LET all == _load_all_states(pods_dir)
       IN  /\ Len(all) = Cardinality(DOMAIN pods_dir)
           /\ \A i, j \in 1..Len(all) : all[i].name = all[j].name => i = j
    /\ (cmd = "up" /\ arg_name \in DOMAIN dir0) =>
          /\ pc = "done" /\ result = "exit1"
          /\ log = <<>> /\ created = ""
          /\ pods_dir = dir0

\* an up refused because its name is tracked
C8_Witness ==
    /\ cmd = "up" /\ pc = "done" /\ result = "exit1"
    /\ arg_name \in DOMAIN dir0
    /\ Cardinality(DOMAIN pods_dir) = 2

\* wait_for_ready is over: it returned, it raised the timeout, or a status
\* call raised
WaitReturned ==
    \/ cmd = "wait" /\ pc = "done" /\ result = "ok"
    \/ cmd = "up" /\ pc = "up_endpoint"
WaitTimedOut ==
    \/ cmd = "wait" /\ pc = "done" /\ result = "SystemExit"
    \/ cmd = "up" /\ pc = "up_wait_failed"
WaitErrored == pc = "done" /\ failure = "status_error"

\* what wait_for_ready returns on the poll that first shows a runtime
ReturnsThatPoll ==
    /\ WaitReturned
    /\ polls = ready_poll
    /\ pod_info = pod
    /\ pod_info[1].runtime # None

\* C9 as stated: for every N >= 1, a provider that shows the runtime first on
\* poll N makes wait_for_ready return the record of poll N.
C9_Original ==
    (ready_poll >= 1 /\ (WaitReturned \/ WaitTimedOut)) => ReturnsThatPoll

\* C9, amended: for every N >= 1 whose poll starts before the deadline (the
\* N-1 polls and sleeps before it take less than the timeout), a provider
\* that shows the runtime first on poll N makes wait_for_ready return the
\* record of poll N.
C9_ReadyOnPollN ==
    (/\ ready_poll >= 1
     /\ WaitReturned \/ WaitTimedOut
     /\ (ready_poll - 1) * (latency + POLL_INTERVAL_S) < deadline) => ReturnsThatPoll

\* a wait that returned on its second poll
C9_Witness == WaitReturned /\ ready_poll = 2 /\ polls = 2 /\ cmd = "wait"

\* every poll of the running wait started before the deadline, which bounds
\* their number by the timeout
PollsBeforeDeadline ==
    polls >= 1 =>
        /\ (polls - 1) * (latency + POLL_INTERVAL_S) < deadline
        /\ (polls - 1) * POLL_INTERVAL_S < deadline

SawRuntime == pod # None /\ pod[1].runtime # None

\* C10 as stated: the polls are bounded by the deadline, a record is returned
\* only with a runtime, and a wait in which no poll saw a runtime ends with
\* the timeout.
C10_Original ==
    /\ (pc = "wait_loop" \/ WaitReturned \/ WaitTimedOut \/ WaitErrored) => PollsBeforeDeadline
    /\ WaitReturned => SawRuntime /\ pod_info = pod
    /\ ((WaitReturned \/ WaitTimedOut \/ WaitErrored) /\ ~SawRuntime) => WaitTimedOut

\* C10, amended: the polls are bounded by the deadline and the loop can
\* always take its next turn; a record is returned only with a runtime; a
\* wait in which no poll saw a runtime and no status call failed ends with
\* the timeout, at or after the deadline; a failed status call ends it at
\* once with that error.
C10_WaitBounded ==
    /\ (pc = "wait_loop" \/ WaitReturned \/ WaitTimedOut \/ WaitErrored) => PollsBeforeDeadline
    /\ pc = "wait_loop" => ENABLED (WaitPoll \/ WaitTimeout)
    /\ WaitReturned => SawRuntime /\ pod_info = pod
    /\ ((WaitReturned \/ WaitTimedOut) /\ ~SawRuntime) => WaitTimedOut /\ now >= deadline
    /\ WaitErrored => result = "Exception" /\ pod_info = None

\* a wait that polled twice without seeing a runtime and then timed out
C10_Witness == WaitTimedOut /\ polls = 2 /\ ~SawRuntime /\ cmd = "wait"

Count(step) == Cardinality({i \in 1..Len(log) : log[i][1] = step})

\* the status calls _print_pod_table has made in this invocation
Lookups == Count("print") + Count("cleanup")

\* C11: within one invocation every remote call but the readiness poll is
\* issued at most once (a rejected create ends the invocation, status looks
\* each record up once); the readiness loop is still running after a poll only
\* when that poll answered with a pod that has no runtime; a status call that
\* raised ended the wait with that exception, and no poll follows it.
C11_NoRetry ==
    /\ \A s \in {"create", "wait", "endpoint", "pull", "save", "terminate", "clear", "list"} :
          Count(s) <= 1
    /\ (pc = "done" /\ failure = "create") =>
          /\ log = << <<"create", "", "rejected">> >>
          /\ result = "SystemExit" /\ created = ""
    /\ (cmd = "status" /\ pc = "done" /\ result = "ok") =>
          Lookups = IF arg_name # "" THEN 1
                    ELSE IF DOMAIN dir0 # {} THEN Cardinality(DOMAIN dir0)
                    ELSE Cardinality(listed)
    /\ (pc = "wait_loop" /\ polls >= 1) =>
          /\ pod # None /\ pod[1].runtime = None
          /\ failure = ""
    /\ WaitErrored =>
          /\ result = "Exception" /\ polls >= 1
          /\ ~ENABLED WaitPoll
          /\ log[Len(log)][1] = "wait"

\* an up whose second status call raised: the wait ended there
C11_Witness ==
    /\ cmd = "up" /\ WaitErrored /\ polls = 2
    /\ Count("create") = 1 /\ Exists(created)

\* process p is an up that passed the existing-record check and has not ended
UpInFlight(p) == procs[p].cmd = "up" /\ procs[p].pc \in {"create", "ready", "save"}

\* no record names this pod
Untracked(id) == \A n \in DOMAIN pods_dir : pods_dir[n].pod_id # id

\* C12: nothing holds an invocation back for another one: an up passes the
\* existing-record check on a name while other ups on that name are between
\* their check and their save, and a save or a clear that is due is taken
\* whatever the file holds by then; the file of every name is what its last
\* writer made it (the record of the last save, nothing after a clear).
C12_LastWriterWins ==
    /\ \A p \in Procs, n \in Names :
          (procs[p].pc = "idle" /\ n \notin DOMAIN pods_dir /\ issued < MaxPods) =>
              ENABLED (RaceUpBegin(p, n, TRUE) /\ UpInFlight(p)')
    /\ \A p \in Procs :
          /\ procs[p].pc = "save" => ENABLED RaceUpSave(p)
          /\ procs[p].pc = "clear" => ENABLED RaceDownClear(p)
    /\ \A n \in Names :
          IF n \in DOMAIN last_write /\ last_write[n].op = "save"
          THEN /\ n \in DOMAIN pods_dir
               /\ pods_dir[n].pod_id = last_write[n].pod_id
               /\ pods_dir[n].name = n
          ELSE n \notin DOMAIN pods_dir

\* two ups on one name both passed the check, both created a pod and both
\* saved: the record is the second writer's, the first writer's pod runs on
\* with no record
C12_Witness ==
    \E p, q \in Procs :
        /\ p # q
        /\ procs[p].cmd = "up" /\ procs[q].cmd = "up"
        /\ procs[p].name = procs[q].name
        /\ procs[p].result = "ok" /\ procs[q].result = "ok"
        /\ procs[p].pod_id # procs[q].pod_id
        /\ last_write[procs[p].name] = [op |-> "save", pod_id |-> procs[q].pod_id]
        /\ pods_dir[procs[p].name].pod_id = procs[q].pod_id
        /\ Exists(procs[p].pod_id) /\ Untracked(procs[p].pod_id)

\* a down cleared the file after an up of the same name had saved into it:
\* the up ended well, its pod runs, and no record is left of it
C12_DownRaceUp ==
    \E p, q \in Procs :
        /\ p # q
        /\ procs[p].cmd = "up" /\ procs[p].result = "ok"
        /\ procs[q].cmd = "down" /\ procs[q].result = "ok" /\ procs[q].name = procs[p].name
        /\ procs[q].pod_id # procs[p].pod_id
        /\ Exists(procs[p].pod_id) /\ Untracked(procs[p].pod_id)
        /\ procs[p].name \notin DOMAIN pods_dir

\* the terminate calls a run of down made
TerminateCalls(run) == {i \in 1..Len(run.log) : run.log[i][1] = "terminate"}

\* the provider failed a call of the run for another reason than not knowing
\* the pod
FailedTransiently(run) ==
    \E i \in TerminateCalls(run) : run.failure = "terminate" /\ run.log[i][3] = "found"

\* C13: when down has run twice in a row on a name, and the provider failed
\* no call but for a pod it does not know, the second run left the records
\* and the provider's pods as the first run left them, and made no terminate
\* call.
C13_DownTwiceAsOnce ==
    (Len(output) = 2 /\ ~FailedTransiently(output[1]) /\ ~FailedTransiently(output[2])) =>
        /\ output[2].dir = output[1].dir
        /\ output[2].provider = output[1].provider
        /\ TerminateCalls(output[2]) = {}

\* the record as _save_state writes it: the record handed in, named
Saved(name) == [k \in DOMAIN input \cup {"name"} |-> IF k = "name" THEN name ELSE input[k]]

\* what holds of the last call when it did not raise
RoundTrip ==
    /\ DOMAIN disk = DOMAIN pods_dir
    /\ output.op = "save" =>
          /\ pods_dir[output.name] = Saved(output.name)
          /\ json_loads(disk[output.name]) = Good(Saved(output.name), Len(disk[output.name]) + 1)
    /\ output.op = "load" =>
          /\ output.ret = _load_state(pods_dir, output.name)
          /\ output.ret = IF output.name \in DOMAIN disk THEN Some(Saved(output.name)) ELSE None
    /\ output.op = "clear" =>
          /\ output.name \notin DOMAIN disk
          /\ _load_state(pods_dir, output.name) = None
          /\ output.name \notin DOMAIN output.before =>
                pods_dir = output.before /\ disk = output.disk_before
          /\ \A n \in DOMAIN output.before \ {output.name} :
                n \in DOMAIN pods_dir /\ pods_dir[n] = output.before[n]

\* C14: for every name and every record, none of the three calls raises; a
\* load of a name that was saved and not cleared since returns the record as
\* it was saved, read back from the text on disk; a load of a name that was
\* cleared, or never saved, returns None; a clear leaves no file of the name,
\* and changes nothing when there was none.
C14_SaveLoadClear == output.raised = "" /\ RoundTrip

\* the same for the names that hold no slash
RoundTripInPodsDir == InPodsDir(output.name) => output.raised = "" /\ RoundTrip

\* a load gave back a record saved under another name than the one it
\* carried, with a quote and a backslash in one of its strings
C14_Witness ==
    /\ output.op = "load" /\ output.ret # None
    /\ "name" \in DOMAIN input /\ input.name # output.name
    /\ output.ret[1].name = output.name
    /\ output.ret[1].network_volume_id = Str(<<Backslash, Quote>>)

\* find_cheapest_gpu is over
GpuDone == output.pc = "done"

\* the SKUs of the list with at least the VRAM asked for, by position
EligibleAt == {i \in DOMAIN input.gpus : input.gpus[i].memoryInGb >= input.min_vram_gb}

\* the lookups that gave a price, by position in the order they were made
UsableAt == {j \in DOMAIN output.looked_up : output.looked_up[j].result # None}

\* C15: find_cheapest_gpu exits with "No GPUs found" exactly when no SKU of
\* the list has VRAM >= the minimum, whatever the cloud type; it has then
\* looked no SKU up.
C15_NoCandidateError ==
    GpuDone =>
        /\ output.raised = "No GPUs found" <=> EligibleAt = {}
        /\ EligibleAt = {} => output.looked_up = <<>> /\ output.ret = None

\* two SKUs listed, both too small
C15_Witness ==
    /\ GpuDone /\ output.raised = "No GPUs found"
    /\ Len(input.gpus) = 2 /\ input.min_vram_gb = 100

\* C16: find_cheapest_gpu exits with "No available GPUs", which is not the
\* no-candidate message, exactly when some SKU has VRAM >= the minimum and
\* no lookup of such a SKU gave a price under the cloud type asked for; each
\* of those SKUs was looked up, once, in list order.
C16_AvailabilityError ==
    GpuDone =>
        /\ output.raised = "No available GPUs" <=> (EligibleAt # {} /\ UsableAt = {})
        /\ output.raised # "" => output.ret = None
        /\ EligibleAt # {} =>
              /\ Len(output.looked_up) = Cardinality(EligibleAt)
              /\ \A j \in DOMAIN output.looked_up :
                    /\ \E i \in EligibleAt : input.gpus[i].id = output.looked_up[j].id
                    /\ \A k \in DOMAIN output.looked_up :
                          output.looked_up[j].id = output.looked_up[k].id => j = k

\* two SKUs large enough, neither to be had in the secure cloud
C16_Witness ==
    /\ GpuDone /\ output.raised = "No available GPUs"
    /\ input.cloud_type = "secure"
    /\ Len(output.looked_up) = 2

\* where the provider's list has the SKU of this id
PositionOf(id) == CHOOSE i \in DOMAIN input.gpus : input.gpus[i].id = id

\* C17: when some lookup gave a price, find_cheapest_gpu returns the id,
\* price and cloud of one of them, a SKU with VRAM >= the minimum; no lookup
\* gave a lower price, and no SKU earlier in the provider's list gave the
\* same.
C17_CheapestFirstWins ==
    (GpuDone /\ UsableAt # {}) =>
        /\ output.raised = "" /\ output.ret # None
        /\ \E j \in UsableAt :
              /\ output.ret[1] = <<output.looked_up[j].id, output.looked_up[j].result[1][1],
                                   output.looked_up[j].result[1][2]>>
              /\ \E i \in EligibleAt : input.gpus[i].id = output.ret[1][1]
              /\ \A k \in UsableAt :
                    /\ output.looked_up[j].result[1][1] <= output.looked_up[k].result[1][1]
                    /\ output.looked_up[j].result[1][1] = output.looked_up[k].result[1][1] =>
                          PositionOf(output.looked_up[j].id) <= PositionOf(output.looked_up[k].id)

\* two SKUs at the same price: the first of the list is returned
C17_Witness ==
    /\ GpuDone /\ output.ret # None
    /\ Cardinality(UsableAt) = 2
    /\ output.looked_up[1].result[1][1] = output.looked_up[2].result[1][1]
    /\ output.ret[1][1] = input.gpus[1].id

\* _get_price_and_cloud was called for one cloud type of its own
OwnCall == output.called /\ input.cloud_type \in {"community", "secure"}
OwnFlag ==
    IF input.cloud_type = "community" THEN input.detail.communityCloud
    ELSE input.detail.secureCloud
OwnPrice ==
    IF input.cloud_type = "community" THEN input.detail.communityPrice
    ELSE input.detail.securePrice

\* C18 as stated: under community (secure) a SKU is usable exactly when that
\* cloud's flag is set and that cloud's price exists; the pair is that price
\* and the cloud asked for.
C18_Original ==
    OwnCall =>
        /\ output.ret # None <=> (OwnFlag /\ OwnPrice # None)
        /\ output.ret # None => output.ret[1] = <<OwnPrice[1], input.cloud_type>>

\* C18, amended: under community (secure) a SKU is usable exactly when that
\* cloud's flag is set and that cloud's price exists and is not 0; the pair
\* is that price and the cloud asked for; a SKU without the secure flag is
\* not usable under secure, whatever it costs under any.
C18_OwnCloudOnly ==
    OwnCall =>
        /\ output.ret # None <=> (OwnFlag /\ OwnPrice # None /\ OwnPrice[1] # 0)
        /\ output.ret # None => output.ret[1] = <<OwnPrice[1], input.cloud_type>>
        /\ (input.cloud_type = "secure" /\ ~input.detail.secureCloud) => output.ret = None

\* a SKU that any would take, refused under secure for want of the flag
C18_Witness ==
    /\ OwnCall /\ input.cloud_type = "secure" /\ output.ret = None
    /\ ~input.detail.secureCloud /\ input.detail.securePrice # None
    /\ _get_price_and_cloud(input.detail, "any") # None

AnyCall == output.called /\ input.cloud_type = "any"
AnyAvailable == input.detail.communityCloud \/ input.detail.secureCloud

\* the least of the own prices that pass the test exists
LeastOf(exists(_)) ==
    LET prices == {p \in {input.detail.communityPrice, input.detail.securePrice} : exists(p)}
    IN  IF prices = {} THEN None
        ELSE CHOOSE p \in prices : \A q \in prices : p[1] <= q[1]

IsThere(p) == p # None
IsThereNot0(p) == p # None /\ p[1] # 0

\* C19 as stated: under any the price is the provider's lowest price when
\* that field is present, else the least of the community and secure prices
\* that exist; the SKU is usable exactly when there is such a price and one
\* of the two clouds has it available.
C19_Original ==
    AnyCall =>
        LET derived == IF IsThere(input.detail.lowestPrice) THEN input.detail.lowestPrice
                       ELSE LeastOf(IsThere)
        IN  /\ output.ret # None <=> (derived # None /\ AnyAvailable)
            /\ output.ret # None => output.ret[1][1] = derived[1]

\* C19, amended: the same with a price of 0 counted as a price that is not
\* there, in the lowest-price field and in the two own prices alike.
C19_AnyPrice ==
    AnyCall =>
        LET derived == IF IsThereNot0(input.detail.lowestPrice) THEN input.detail.lowestPrice
                       ELSE LeastOf(IsThereNot0)
        IN  /\ output.ret # None <=> (derived # None /\ AnyAvailable)
            /\ output.ret # None => output.ret[1][1] = derived[1]

\* no lowest price given, two own prices: the smaller one is taken
C19_Witness ==
    /\ AnyCall /\ output.ret # None
    /\ input.detail.lowestPrice = None
    /\ input.detail.communityPrice = Some(2) /\ input.detail.securePrice = Some(1)
    /\ output.ret[1][1] = 1

\* C20 as stated: under any a usable SKU resolves to community when both
\* clouds have it available, and to secure otherwise.
C20_Original ==
    (AnyCall /\ output.ret # None) =>
        output.ret[1][2] = IF input.detail.communityCloud /\ input.detail.secureCloud
                           THEN "community" ELSE "secure"

\* C20, amended: under any a usable SKU resolves to community whenever the
\* community cloud has it available, with or without the secure cloud, and
\* to secure only when the secure cloud alone has it.
C20_ResolvedCloud ==
    (AnyCall /\ output.ret # None) =>
        /\ output.ret[1][2] = "community" <=> input.detail.communityCloud
        /\ output.ret[1][2] = "secure" <=> (~input.detail.communityCloud /\ input.detail.secureCloud)

\* a SKU the community cloud alone has: it resolves to community
C20_Witness ==
    /\ AnyCall /\ output.ret # None
    /\ input.detail.communityCloud /\ ~input.detail.secureCloud
    /\ output.ret[1][2] = "community"

(***************************************************************************)
(* create_ollama_pod                                                       *)
(***************************************************************************)
\* the call passed a volume identifier / a cloud type other than the default
VolumePassed == input.network_volume_id # None /\ input.network_volume_id[1] # ""
CloudPassed == IF input.cloud_type = None THEN "ALL" ELSE input.cloud_type[1]

\* C21: the request runpod.create_pod receives carries exactly one disk
\* configuration: with a volume identifier, that identifier, the mount path
\* /runpod-volume and no volume_in_gb; without one, volume_in_gb = 50 and
\* neither network_volume_id nor volume_mount_path.  Its cloud_type is the
\* one the caller passed, ALL when the caller passed none.
C21_OneDiskConfig ==
    output.request # None =>
        LET k == output.request[1]
        IN  /\ IF VolumePassed
               THEN /\ "network_volume_id" \in DOMAIN k
                    /\ k.network_volume_id = input.network_volume_id[1]
                    /\ "volume_mount_path" \in DOMAIN k
                    /\ k.volume_mount_path = "/runpod-volume"
                    /\ "volume_in_gb" \notin DOMAIN k
               ELSE /\ "volume_in_gb" \in DOMAIN k
                    /\ k.volume_in_gb = 50
                    /\ "network_volume_id" \notin DOMAIN k
                    /\ "volume_mount_path" \notin DOMAIN k
            /\ k.cloud_type = CloudPassed

\* a request with a volume and a constrained cloud type has reached the provider
C21_Witness ==
    /\ output.pc = "done"
    /\ output.request # None
    /\ input.network_volume_id = Some("vol-1")
    /\ input.cloud_type = Some("SECURE")
    /\ output.request[1].network_volume_id = "vol-1"
    /\ output.request[1].cloud_type = "SECURE"

Rejected == output.pc = "done" /\ output.raised # None

Mentions(message, part) == \E i \in 1..Len(message) : message[i] = part

\* C22: a rejected create call returns no pod id; its SystemExit carries the
\* datacenter diagnostic (the SKU, the cloud type in lower case, the volume
\* identifier, and the advice to try --cloud-type any or another --gpu-type)
\* exactly when a volume identifier was passed and the cloud type is not ALL,
\* and otherwise "RunPod rejected deployment: " and the provider's message,
\* nothing else.
C22_RejectionDiagnostic ==
    Rejected =>
        LET message == output.raised[1]
        IN  /\ output.ret = None
            /\ message[1] = "RunPod rejected deployment: "
            /\ message[2] \in Rejections
            /\ IF VolumePassed /\ CloudPassed # "ALL"
               THEN /\ Mentions(message, input.gpu_type_id)
                    /\ Mentions(message, IF CloudPassed = "COMMUNITY" THEN "community" ELSE "secure")
                    /\ Mentions(message, input.network_volume_id[1])
                    /\ Mentions(message, " cloud in the datacenter ")
                    /\ message[Len(message)] = "  Try --cloud-type any, or pick a different --gpu-type."
               ELSE Len(message) = 2

\* a create call with a volume under COMMUNITY was rejected and diagnosed
C22_Witness ==
    /\ Rejected
    /\ input.network_volume_id = Some("vol-1")
    /\ input.cloud_type = Some("COMMUNITY")
    /\ Mentions(output.raised[1], "vol-1")
    /\ Mentions(output.raised[1], "community")
    /\ output.ret = None

(***************************************************************************)
(* get_endpoint                                                            *)
(***************************************************************************)
RecordPorts == IF input.runtime = None THEN <<>> ELSE input.runtime[1].ports

\* the positions of the entries with private port 11434 and an address
Mapped == {i \in DOMAIN RecordPorts :
              RecordPorts[i].privatePort = 11434 /\ RecordPorts[i].ip # ""}

\* C23: every call of get_endpoint on a record returns the same value: when
\* the record's port list has entries with private port 11434 and an
\* address, protocol://ip:public_port of the first of them, https for type
\* http and http for any other type; when it has none (no runtime, an empty
\* list), https://<id>-11434.proxy.runpod.net.
C23_Endpoint ==
    \A c \in DOMAIN output :
        IF Mapped # {}
        THEN LET first == CHOOSE i \in Mapped : \A j \in Mapped : i <= j
                 e == RecordPorts[first]
             IN  output[c] = (IF e.type = "http" THEN "https" ELSE "http")
                             \o "://" \o e.ip \o ":" \o ToString(e.publicPort)
        ELSE output[c] = "https://" \o input.id \o "-11434.proxy.runpod.net"

\* two calls on a record with two mapped entries of different addresses,
\* the first of type http: both calls return the first entry's address
C23_Witness ==
    /\ Len(output) = 2
    /\ {1, 2} \subseteq Mapped
    /\ RecordPorts[1].ip = "194.68.1.1" /\ RecordPorts[1].type = "http"
    /\ RecordPorts[2].ip = "10.0.0.2"
    /\ output[1] = "https://194.68.1.1:443"
    /\ output[2] = output[1]

(***************************************************************************)
(* get_model_size_gb                                                       *)
(***************************************************************************)
\* the positions of the manifest's layers of the model-weight type
WeightLayers ==
    {i \in DOMAIN input.layers : input.layers[i].mediaType = "application/vnd.ollama.image.model"}

RECURSIVE SizeOver(_)
SizeOver(positions) ==
    IF positions = {} THEN 0
    ELSE LET i == CHOOSE p \in positions : TRUE
         IN  input.layers[i].size + SizeOver(positions \ {i})

\* C24: once get_model_size_gb has ended: on a 404 it has raised "Model not
\* found" and read no manifest; on a 200 the bytes it counted are the sizes of
\* the layers of type application/vnd.ollama.image.model and of no other
\* layer; when they come to 0 it has raised "No model layers found", else it
\* has returned them divided by 1024**3.
C24_WeightLayersOnly ==
    output.pc = "done" =>
        /\ input.status_code = 404 =>
              output.raised = "Model not found" /\ output.manifest = None /\ output.ret = None
        /\ input.status_code = 200 =>
              IF SizeOver(WeightLayers) = 0
              THEN output.raised = "No model layers found" /\ output.ret = None
              ELSE /\ output.raised = ""
                   /\ output.total_bytes = SizeOver(WeightLayers)
                   /\ output.ret = Some(<<SizeOver(WeightLayers), 1024 * 1024 * 1024>>)

\* a manifest with a weight layer and a license layer of 1000 bytes was
\* summed to the weight layer's size alone
C24_Witness ==
    /\ output.pc = "done"
    /\ input.status_code = 200
    /\ Cardinality(WeightLayers) = 1
    /\ \E i \in DOMAIN input.layers :
          input.layers[i].mediaType = LicenseMediaType /\ input.layers[i].size = 1000
    /\ output.total_bytes = 536870912
    /\ output.ret # None

(***************************************************************************)
(* up: what a failed invocation leaves at the provider                     *)
(***************************************************************************)
\* C25: an up that has ended on its own, after create_ollama_pod returned a
\* pod id and without saving a record, has issued terminate for that id,
\* whatever stopped it (the readiness timeout, an error of the status call,
\* the pull).
C25_NoOrphanAfterFailedUp ==
    (cmd = "up" /\ pc = "done" /\ result # "crash" /\ created # "" /\ ~HasStep("save")) =>
        \E i \in 1..Len(log) : log[i][1] = "terminate" /\ log[i][2] = created

(***************************************************************************)
(* Reconciliation after the records were lost                              *)
(***************************************************************************)
\* _sync_from_runpod has just listed the provider's pods and the pod of the
\* lost record was among the running ones
ReconciledLost ==
    /\ input # <<>>
    /\ cmd = "status"
    /\ log # <<>> /\ log[Len(log)] = <<"list", "", "">>
    /\ \E p \in listed : p.id = input[2]

\* C26: when up --name n has saved a record, the records are lost, and
\* status then rebuilds them from the provider while that pod is running,
\* there is a record under the name n again and it holds that pod's id.
C26_RebuiltUnderSameName ==
    ReconciledLost =>
        /\ _load_state(pods_dir, input[1]) # None
        /\ _load_state(pods_dir, input[1])[1].pod_id = input[2]

(***************************************************************************)
(* _get_price_and_cloud: the pair as a whole                               *)
(***************************************************************************)
\* C27: under every cloud_type, a pair _get_price_and_cloud returns names a
\* cloud whose availability flag is set in the detail, and its price is
\* that cloud's own price in the detail.
C27_PairConsistent ==
    (output.called /\ output.ret # None) =>
        LET price == output.ret[1][1]
            cloud == output.ret[1][2]
        IN  /\ IF cloud = "community" THEN input.detail.communityCloud
               ELSE input.detail.secureCloud
            /\ Some(price) = (IF cloud = "community" THEN input.detail.communityPrice
                              ELSE input.detail.securePrice)

(***************************************************************************)
(* up --dry-run                                                            *)
(***************************************************************************)
\* C28: an up started with --dry-run, whatever its name and whatever its
\* lookups come to, is over with its first step: it has made no create,
\* terminate or pull call (nothing is logged, the provider's pods are as
\* they were) and every record is as it was.
C28_DryRunFrame ==
    [][\A name \in Names, lookups_ok \in BOOLEAN :
          UpBegin(name, TRUE, lookups_ok) =>
              /\ pc' = "done"
              /\ log' = <<>> /\ created' = ""
              /\ provider' = provider /\ issued' = issued
              /\ pods_dir' = pods_dir]_vars

\* an up that can only have been a dry run has ended (exit code 0), next to
\* a record of another name and a running pod, both untouched
C28_Witness ==
    /\ cmd = "up" /\ pc = "done" /\ result = "exit0"
    /\ log = <<>> /\ created = ""
    /\ pods_dir # <<>> /\ pods_dir = dir0
    /\ provider # <<>>

====
